---- MODULE Spec2Model ----
(***************************************************************************)
(* Auth server first-start bootstrap of Teleport (package auth, func Init, *)
(* initKeys, writeKeys, ReadIdentity) run by two Auth replicas against one *)
(* shared backend, each replica with its own DataDir.                      *)
(*                                                                         *)
(* Every backend call, key generation and file operation of Init is one    *)
(* step of the replica that runs it, so that the runs interleave at every  *)
(* I/O boundary.  Time is abstract: a record stored with ttl > 0 may       *)
(* expire at any later moment, a record stored with ttl = 0 never does.    *)
(***************************************************************************)
EXTENDS Integers, Sequences, FiniteSets, TLC

\* number of Init runs (the first start and the restarts) of a single Auth
\* server
MaxStarts == 3
\* number of Init runs of the replicas of a replicated Auth service
MaxReplicaStarts == 2

\* the Auth replicas; both use the same cfg.DomainName and the same backend
Procs == {"a1", "a2"}

CATypes == {"host", "user"}

\* backend.Forever: ttl = 0 means the record never expires
Forever == 0
\* lockService.AcquireLock(cfg.DomainName, 60*time.Second)
LockTTL == 60
\* asrv.UpsertToken(token, role, 600*time.Second)
TokenTTL == 600

\* teleport.RoleAdmin, the role of the identity Init bootstraps
RoleAdmin == "Admin"

\* roles a provisioning token may carry
KnownRoles == {"node", "proxy", "auth"}

Absent == [kind |-> "absent"]
Partial == [kind |-> "partial"]
NoCA == [kind |-> "nil"]
NoIdentity == [kind |-> "nil"]
NoLock == [kind |-> "free"]

----------------------------------------------------------------------------
(* Key material.  A key pair is named by the run that made it.             *)

KeyId(owner, run, use) == [owner |-> owner, run |-> run, use |-> use]
Priv(k) == [priv |-> k]
Pub(k) == [pub |-> k]

\* the services.CertAuthority literal Init builds from a generated pair
NewCABroken(domainType, k) ==
    [kind |-> "ca", Type |-> domainType,
     SigningKeys |-> <<Priv(k), Priv(k)>>, CheckingKeys |-> <<Pub(k)>>]

NewCA(domainType, k) ==
    [kind |-> "ca", Type |-> domainType,
     SigningKeys |-> <<Priv(k)>>, CheckingKeys |-> <<Pub(k)>>]

\* key material an operator can supply for a CA type; it holds the current
\* pair and the previous one
OperatorCA(t) ==
    [kind |-> "ca", Type |-> t,
     SigningKeys |-> <<Priv(KeyId("operator", 0, t)), Priv(KeyId("operator", 0, "old"))>>,
     CheckingKeys |-> <<Pub(KeyId("operator", 0, t)), Pub(KeyId("operator", 0, "old"))>>]

\* LocalCertificateAuthority.CA(): converts the configured keypair of
\* AuthConfig into a *services.CertAuthority
LocalCertificateAuthority_CA(c) == NoCA

\* how Init is reached: from the service start-up, which passes
\* AuthConfig.HostCA.CA() / AuthConfig.UserCA.CA(), or called directly with
\* an InitConfig that carries the CertAuthority itself
InitConfigCA(via, c) ==
    IF via = "AuthConfig" THEN LocalCertificateAuthority_CA(c) ELSE c

\* the AllowedTokens maps an operator can configure: entries are token
\* strings carrying a role and a secret
Tok(role, secret) == [role |-> role, secret |-> secret]
Secrets == {"s1", "s2"}
TokenChoices == { {}, {Tok("node", "s1")}, {Tok("bogus", "s2")} }

\* the CA material an operator can configure: none, a host-CA handed to
\* Init in its InitConfig, or a host-CA and a user-CA set in AuthConfig
CAChoices ==
    { [via |-> "InitConfig", host |-> NoCA, user |-> NoCA],
      [via |-> "InitConfig", host |-> OperatorCA("host"), user |-> NoCA],
      [via |-> "AuthConfig", host |-> OperatorCA("host"),
                             user |-> OperatorCA("user")] }

\* The deployments explored: a single Auth server, restarted with whatever
\* configuration the operator gives it at each start, or an Auth service of
\* two replicas on one backend that are started from the same cluster
\* configuration
Single == [kind |-> "single"]
Replicated(oc, at) == [kind |-> "replicated", ca |-> oc, tokens |-> at]
\* the replicas of a cluster are all given the cluster's join token
Deployments ==
    {Single} \cup {Replicated(oc, at) : oc \in CAChoices, at \in { {Tok("node", "s1")} }}

\* the replicas a deployment runs, and the number of Init runs explored
Replicas(d) == IF d.kind = "single" THEN {"a1"} ELSE {"a1", "a2"}
StartBound(d) == IF d.kind = "single" THEN MaxStarts ELSE MaxReplicaStarts

\* the configurations a start of the deployment can be given
ConfigCAs(d) == IF d.kind = "single" THEN CAChoices ELSE {d.ca}
ConfigTokens(d) == IF d.kind = "single" THEN TokenChoices ELSE {d.tokens}
ConfigDataDirs(d) ==
    IF d.kind = "single" THEN {"", "/var/lib/teleport"} ELSE {"/var/lib/teleport"}
ConfigHostUUIDs(d, p) == IF d.kind = "single" THEN {"", p} ELSE {p}

\* services.SplitTokenRole: (secret, role) of a token string, or an error
\* when the role is not a recognised one
SplitTokenRole(e) ==
    IF e.role \in KnownRoles
      THEN [err |-> FALSE, token |-> e.secret, role |-> e.role]
      ELSE [err |-> TRUE, token |-> "", role |-> ""]

----------------------------------------------------------------------------
(* The pure decisions of Init and initKeys.                                *)

\* lines 97-103: DataDir and HostUUID must be non-empty
ValidateConfigNoUUID(dataDir, hostUUID) ==
    IF dataDir = "" THEN "bad-parameter" ELSE "ok"

ValidateConfig(dataDir, hostUUID) ==
    IF dataDir = "" THEN "bad-parameter"
    ELSE IF hostUUID = "" THEN "bad-parameter"
    ELSE "ok"

\* lines 127-131 and 153-157: what Init does with the outcome of
\* GetCertAuthority: nothing when the CA was read, fail on an error other
\* than not-found, create the CA on not-found
CABlockAlwaysCreate(r) ==
    IF r = "error" THEN "fail" ELSE "create"

CABlockCreateOnError(r) ==
    IF r = "found" THEN "skip" ELSE "create"

CABlock(r) ==
    IF r = "found" THEN "skip"
    ELSE IF r # "notfound" THEN "fail"
    ELSE "create"

\* lines 132-144 and 158-170: a pair is generated only when the
\* configuration carries no CA of that type
CAToStore(supplied, generated) ==
    IF supplied = NoCA THEN generated ELSE supplied

\* lines 145 and 171: the ttl Init passes to UpsertCertAuthority
CATTL == Forever

\* lines 175-176: tokens are installed on first start when there are any
InstallTokensAlways(first, allowed) == allowed # {}

InstallTokens(first, allowed) == first /\ allowed # {}

\* line 186: the ttl Init passes to UpsertToken
InitTokenTTL == TokenTTL

\* line 116: the deferred ReleaseLock runs on every return after the lock
\* was acquired
ExitPCNoDefer(deferred) == "done"

ExitPC(deferred) == IF deferred THEN "release" ELSE "done"

\* line 215: initKeys bootstraps unless both files exist
NeedBootstrapAlways(keyExists, certExists) == TRUE

NeedBootstrap(keyExists, certExists) == ~keyExists \/ ~certExists

\* pathExists: os.Stat succeeded
pathExists(f) == f.kind # "absent"

\* GenerateHostCert(publicKey, HostUUID, DomainName, Role, 0): a host
\* certificate for the key, signed by the active (first) signing key of the
\* stored host-CA
GenerateHostCert(k, hostUUID, role, hostCA) ==
    [kind |-> "cert", Key |-> Pub(k), SignatureKey |-> hostCA.CheckingKeys[1],
     Principal |-> hostUUID, Role |-> role]

\* ReadIdentity, lines 267-305
ReadIdentityAnyPublicKey(kf, cf) ==
    IF kf.kind = "absent" THEN NoIdentity
    ELSE IF cf.kind = "absent" THEN NoIdentity
    ELSE IF cf.kind \notin {"cert", "pubkey"} THEN NoIdentity
    ELSE IF kf.kind # "key" THEN NoIdentity
    ELSE IF cf.Key # Pub(kf.k) THEN NoIdentity
    ELSE [kind |-> "identity", KeyBytes |-> kf, CertBytes |-> cf,
          KeySigner |-> [cert |-> cf, key |-> Priv(kf.k)]]

ReadIdentity(kf, cf) ==
    IF kf.kind = "absent" THEN NoIdentity              \* utils.ReadPath(kp)
    ELSE IF cf.kind = "absent" THEN NoIdentity          \* utils.ReadPath(cp)
    ELSE IF cf.kind \notin {"cert", "pubkey"} THEN NoIdentity
                                                    \* ssh.ParseAuthorizedKey
    ELSE IF cf.kind # "cert" THEN NoIdentity      \* not an *ssh.Certificate
    ELSE IF kf.kind # "key" THEN NoIdentity         \* ssh.ParsePrivateKey
    ELSE IF cf.Key # Pub(kf.k) THEN NoIdentity       \* ssh.NewCertSigner
    ELSE [kind |-> "identity", KeyBytes |-> kf, CertBytes |-> cf,
          KeySigner |-> [cert |-> cf, key |-> Priv(kf.k)]]

----------------------------------------------------------------------------
(* State.                                                                  *)

VARIABLES
    deployment, \* the deployment explored, fixed from the start
    pc,         \* position of each replica in Init
    cfg,        \* the InitConfig of the current run (Init assigns cfg.HostCA / cfg.UserCA)
    firstStart, \* the local firstStart of Init
    deferred,   \* TRUE once "defer lockService.ReleaseLock" is registered
    todo,       \* entries of cfg.AllowedTokens the range loop has not visited
    pending,    \* initKeys' privateKey and cert between generation and writeKeys
    result,     \* what Init returns: "none" while running, "ok", "bad-parameter", "error"
    identity,   \* the *Identity Init returns
    runId,      \* number of the current run of each replica
    starts,     \* number of Init runs started so far
    ca,         \* backend: the stored certificate authorities, by type
    tokens,     \* backend: the stored provisioning tokens, by secret
    lock,       \* backend: the advisory lock named cfg.DomainName
    files,      \* the key and certificate file in each replica's DataDir
    dirExists,  \* whether each replica's DataDir has been created
    hist,       \* what the current run of each replica has done so far
    cache,      \* client: the CAs in the trust cache hostsigners.db, by id
    passed,     \* client: the CA last passed to AddHostSignersToCache, by id
    call,       \* client: the last keystore call and what it returned
    keyDir,     \* client: the content of the key files in the keys directory
    pastDeadline, \* client: the key deadlines that the clock has passed
    reader,     \* client: the process that runs GetLocalAgent
    writer,     \* client: the login process that runs saveKey
    kv,         \* backend: the value stored under one key, with its version
    swaps,      \* backend: the CompareAndSwap calls on that key
    store,      \* backend: the records of a bucket, each with its ttl
    clock,      \* backend: the time, in seconds
    got,        \* backend: the last Get or List and what it returned
    conf        \* teleport start: the flags, the file and what configure returned

\* the state of the client keystore
clientVars == <<cache, passed, call, keyDir, pastDeadline, reader, writer>>

\* one key of the backend and the calls that swap it
kvVars == <<kv, swaps, store, clock, got>>

\* the state of the Auth servers, their backend and their data directories
authVars == <<deployment, pc, cfg, firstStart, deferred, todo, pending, result, identity,
              runId, starts, ca, tokens, lock, files, dirExists, hist>>

vars == <<deployment, pc, cfg, firstStart, deferred, todo, pending, result, identity,
          runId, starts, ca, tokens, lock, files, dirExists, hist, clientVars, kvVars, conf>>

FileNames == {"key", "cert"}

NoCfg == [DataDir |-> "", HostUUID |-> "", CA |-> [t \in CATypes |-> NoCA],
          AllowedTokens |-> {}, via |-> "InitConfig",
          operator |-> [t \in CATypes |-> NoCA]]

NoPending == [kind |-> "nil"]

NewHist ==
    [acquired |-> FALSE,    \* AcquireLock returned nil
     mkdir |-> FALSE,       \* os.MkdirAll was called
     backend |-> FALSE,     \* some backend call was made
     found |-> {},          \* CA types GetCertAuthority returned
     readErr |-> {},        \* CA types whose read failed, not with not-found
     failure |-> "none",    \* the backend call that failed: "lock", "read",
                            \* "upsertCA", "upsertToken"
     generated |-> {},      \* CA types a key pair was generated for
     upserted |-> {},       \* CA types UpsertCertAuthority was called for
     stored |-> {},         \* secrets UpsertToken stored
     hostKey |-> FALSE,     \* initKeys generated a key pair
     certReq |-> FALSE,     \* initKeys called GenerateHostCert
     wrote |-> FALSE,       \* initKeys wrote to a file
     both |-> FALSE,        \* initKeys found both files
     atStat |-> [f \in FileNames |-> Absent]]  \* the files initKeys found

Running == {"acquire_lock", "get_host", "upsert_host", "get_user",
            "upsert_user", "tokens", "init_keys", "gen_cert", "release"}

----------------------------------------------------------------------------
(* The client keystore (package client): the trust cache of host-CAs and   *)
(* the checks of presented host keys against it.                           *)

\* the CAs a proxy hands to the client after login (without secrets): the
\* host-CA of cluster A with its current and its previous checking key, the
\* same CA after a rotation, the host-CA of cluster B, the user-CA of A
Signer(type, domain, checkers) ==
    [kind |-> "ca", Type |-> type, DomainName |-> domain,
     SigningKeys |-> <<>>, CheckingKeys |-> checkers]
SignerA == Signer("host", "A", <<Pub(KeyId("A", 1, "host")), Pub(KeyId("A", 0, "host"))>>)
SignerARotated == Signer("host", "A", <<Pub(KeyId("A", 2, "host"))>>)
SignerB == Signer("host", "B", <<Pub(KeyId("B", 1, "host")), Pub(KeyId("B", 0, "host"))>>)
UserSignerA == Signer("user", "A", <<Pub(KeyId("A", 1, "user"))>>)
TrustCAs == {SignerA, SignerARotated, SignerB, UserSignerA}

\* a CA is stored under its type and domain name; GetCertAuthorities lists
\* the stored CAs in the order of their ids
CAId(c) == <<c.Type, c.DomainName>>
CacheIds == << <<"host", "A">>, <<"host", "B">>, <<"user", "A">> >>
CacheIdSet == {CacheIds[i] : i \in 1..Len(CacheIds)}
EmptyCache == [id \in CacheIdSet |-> Absent]
NoCall == [op |-> "none"]

\* the key files of the keys directory, in the order ioutil.ReadDir lists
\* them (sorted by name): KeyFilePrefix + name + KeyFileSuffix
KeyFileNames == <<"teleport_a.tkey", "teleport_b.tkey", "teleport_c.tkey">>
KeyFileSet == {KeyFileNames[i] : i \in 1..Len(KeyFileNames)}

KeyFilePrefix == "teleport_"
KeyFileSuffix == ".tkey"

\* everything the keys directory can hold, in the order ioutil.ReadDir
\* lists it: the trust cache, a file with the prefix of a key file but not
\* its suffix, the key files, and a directory with the name of a key file
DirNames ==
    <<"hostsigners.db", "teleport_a", "teleport_a.tkey", "teleport_b.tkey",
      "teleport_c.tkey", "teleport_d.tkey">>
DirSet == {DirNames[i] : i \in 1..Len(DirNames)}

\* the names cut at the places strings.HasPrefix and strings.HasSuffix
\* look at
NameParts ==
    [f \in DirSet |->
        CASE f = "hostsigners.db" -> <<"hostsigners", ".db">>
          [] f = "teleport_a" -> <<"teleport_", "a">>
          [] f = "teleport_a.tkey" -> <<"teleport_", "a", ".tkey">>
          [] f = "teleport_b.tkey" -> <<"teleport_", "b", ".tkey">>
          [] f = "teleport_c.tkey" -> <<"teleport_", "c", ".tkey">>
          [] f = "teleport_d.tkey" -> <<"teleport_", "d", ".tkey">>]
HasPrefix(f, prefix) == NameParts[f][1] = prefix
HasSuffix(f, suffix) == NameParts[f][Len(NameParts[f])] = suffix
\* os.FileInfo.IsDir
IsDir(entry) == entry.kind = "dir"

ReaderIdle ==
    [pc |-> "idle",        \* position in GetLocalAgent
     listed |-> <<>>,      \* the files ioutil.ReadDir listed
     names |-> <<>>,       \* files of the listing not visited yet
     keys |-> <<>>,        \* the keys slice of loadAllKeys
     cur |-> "",           \* the file os.Remove is about to be called on
     result |-> "none",    \* what GetLocalAgent returned: "ok" or "error"
     agent |-> <<>>,       \* the keys of the keyring GetLocalAgent returned
     seen |-> <<>>,        \* what loadKey found in each file it visited
     removeFailed |-> {}]  \* files whose os.Remove failed

WriterIdle == [pc |-> "idle", file |-> "", key |-> 0, made |-> 0, unlinked |-> FALSE]

\* number of CompareAndSwap calls in flight on the key, and of other writes
\* to it
MaxCallers == 2
MaxPuts == 2
CasCallers == 1..MaxCallers
NoValue == [kind |-> "absent", val |-> "", ttl |-> Forever, ver |-> 0, puts |-> 0]
NoSwap == [pc |-> "idle", old |-> "", new |-> "", result |-> "none",
           ver |-> 0, at |-> 0]

\* the keys of the bucket the expiry of records is followed on: a CA and a
\* provisioning token
StoreKeys == {"authorities/host", "tokens/s1"}

\* the bucket is empty and was never read
TTLIdle ==
    /\ store = [k \in StoreKeys |-> Absent]
    /\ clock = 0
    /\ got = [op |-> "none"]

\* the key was never written and nobody swaps it
KVIdle ==
    /\ kv = NoValue
    /\ swaps = [c \in CasCallers |-> NoSwap]
    /\ TTLIdle
    /\ conf = [pc |-> "none"]

\* no keystore call was made: the trust cache and the keys directory are
\* empty
ClientIdle ==
    /\ cache = EmptyCache
    /\ passed = EmptyCache
    /\ call = NoCall
    /\ keyDir = [f \in DirSet |-> Absent]
    /\ pastDeadline = {}
    /\ reader = ReaderIdle
    /\ writer = WriterIdle

\* no Init run has started: empty backend, empty data directories
AuthIdle ==
    /\ pc = [p \in Procs |-> "idle"]
    /\ cfg = [p \in Procs |-> NoCfg]
    /\ firstStart = [p \in Procs |-> FALSE]
    /\ deferred = [p \in Procs |-> FALSE]
    /\ todo = [p \in Procs |-> {}]
    /\ pending = [p \in Procs |-> NoPending]
    /\ result = [p \in Procs |-> "none"]
    /\ identity = [p \in Procs |-> NoIdentity]
    /\ runId = [p \in Procs |-> 0]
    /\ starts = 0
    /\ ca = [t \in CATypes |-> Absent]
    /\ tokens = [s \in Secrets |-> Absent]
    /\ lock = NoLock
    /\ dirExists = [p \in Procs |-> FALSE]
    /\ hist = [p \in Procs |-> NewHist]

Init ==
    /\ deployment \in Deployments
    /\ AuthIdle
    /\ ClientIdle
    /\ KVIdle
    /\ files = [p \in Procs |-> [f \in FileNames |-> Absent]]

----------------------------------------------------------------------------
(* The lock service of the backend.                                        *)

\* AcquireLock(name, ttl) is granted when nobody holds the name
LockAvailableAlways(l) == TRUE

LockAvailable(l) == l = NoLock

\* the lock record a granted AcquireLock leaves in the backend
Granted(p, run, ttl) == [kind |-> "held", holder |-> p, run |-> run, ttl |-> ttl]

\* ReleaseLock(name) by a run: drops the lock that run holds
ReleaseLock(l, p, run) ==
    IF l # NoLock /\ l.holder = p /\ l.run = run THEN NoLock ELSE l

----------------------------------------------------------------------------
(* Init, lines 96-199.                                                     *)

\* what is left of a run's configuration once Init has returned: the copy
\* of InitConfig that Init worked on is gone, the caller's DataDir and
\* HostUUID are kept for reference
Returned(c) == [NoCfg EXCEPT !.DataDir = c.DataDir, !.HostUUID = c.HostUUID]

\* what is remembered of a run once Init has returned
Summary(h) == [NewHist EXCEPT !.upserted = h.upserted]

\* return from Init with an error: the deferred ReleaseLock runs first
Fail(p, kind) ==
    /\ result' = [result EXCEPT ![p] = kind]
    /\ pc' = [pc EXCEPT ![p] = ExitPC(deferred[p])]

\* lines 96-110: a run begins; the configuration is validated and the data
\* directory is created
InitStart(p) ==
    /\ p \in Replicas(deployment)
    /\ pc[p] \in {"idle", "done", "crashed"}
    /\ starts < StartBound(deployment)
    /\ \E dd \in ConfigDataDirs(deployment), hu \in ConfigHostUUIDs(deployment, p),
          oc \in ConfigCAs(deployment), at \in ConfigTokens(deployment),
          mkdirOK \in BOOLEAN :
        LET op == [t \in CATypes |-> oc[t]]
            c == [DataDir |-> dd, HostUUID |-> hu,
                  CA |-> [t \in CATypes |-> InitConfigCA(oc.via, op[t])],
                  AllowedTokens |-> at, via |-> oc.via, operator |-> op]
            v == ValidateConfig(dd, hu)
        IN  /\ IF v # "ok"
                 THEN /\ result' = [result EXCEPT ![p] = v]
                      /\ pc' = [pc EXCEPT ![p] = "done"]
                      /\ hist' = [hist EXCEPT ![p] = NewHist]
                      /\ cfg' = [cfg EXCEPT ![p] = Returned(c)]
                      /\ todo' = [todo EXCEPT ![p] = {}]
                      /\ UNCHANGED dirExists
                 ELSE /\ hist' = [hist EXCEPT ![p] = [NewHist EXCEPT !.mkdir = TRUE]]
                      /\ IF mkdirOK
                           THEN /\ dirExists' = [dirExists EXCEPT ![p] = TRUE]
                                /\ result' = [result EXCEPT ![p] = "none"]
                                /\ pc' = [pc EXCEPT ![p] = "acquire_lock"]
                                /\ cfg' = [cfg EXCEPT ![p] = c]
                                /\ todo' = [todo EXCEPT ![p] = at]
                           ELSE /\ result' = [result EXCEPT ![p] = "error"]
                                /\ pc' = [pc EXCEPT ![p] = "done"]
                                /\ cfg' = [cfg EXCEPT ![p] = Returned(c)]
                                /\ todo' = [todo EXCEPT ![p] = {}]
                                /\ UNCHANGED dirExists
    /\ starts' = starts + 1
    /\ runId' = [runId EXCEPT ![p] = starts + 1]
    /\ firstStart' = [firstStart EXCEPT ![p] = FALSE]
    /\ deferred' = [deferred EXCEPT ![p] = FALSE]
    /\ pending' = [pending EXCEPT ![p] = NoPending]
    /\ identity' = [identity EXCEPT ![p] = NoIdentity]
    /\ UNCHANGED <<clientVars, kvVars, conf, deployment, ca, tokens, lock, files>>

\* lines 111-116: AcquireLock returns nil; the release is deferred.  While
\* another run holds the lock the call blocks.
AcquireLock(p) ==
    /\ pc[p] = "acquire_lock"
    /\ LockAvailable(lock)
    /\ lock' = Granted(p, runId[p], LockTTL)
    /\ deferred' = [deferred EXCEPT ![p] = TRUE]
    /\ pc' = [pc EXCEPT ![p] = "get_host"]
    /\ hist' = [hist EXCEPT ![p].acquired = TRUE, ![p].backend = TRUE]
    /\ UNCHANGED <<clientVars, kvVars, conf, deployment, cfg, firstStart, todo, pending, result, identity, runId,
                   starts, ca, tokens, files, dirExists>>

\* lines 112-115: AcquireLock returns an error
AcquireLockFail(p) ==
    /\ pc[p] = "acquire_lock"
    /\ Fail(p, "error")
    /\ hist' = [hist EXCEPT ![p].backend = TRUE, ![p].failure = "lock"]
    /\ cfg' = [cfg EXCEPT ![p] = Returned(@)]
    /\ todo' = [todo EXCEPT ![p] = {}]
    /\ UNCHANGED <<clientVars, kvVars, conf, deployment, firstStart, deferred, pending, identity, runId,
                   starts, ca, tokens, lock, files, dirExists>>

GetPC(t) == IF t = "host" THEN "get_host" ELSE "get_user"
UpsertPC(t) == IF t = "host" THEN "upsert_host" ELSE "upsert_user"

\* where Init continues after the block of CA type t
AfterCA(p, t, first) ==
    IF t = "host" THEN "get_user"
    ELSE IF InstallTokens(first, cfg[p].AllowedTokens) THEN "tokens"
    ELSE "init_keys"

\* lines 127-131 and 153-157: GetCertAuthority(id, false) and the branch on
\* its error
GetCertAuthority(p, t) ==
    /\ pc[p] = GetPC(t)
    /\ \E fault \in BOOLEAN :
        LET r == IF fault THEN "error"
                 ELSE IF ca[t] = Absent THEN "notfound" ELSE "found"
            d == CABlock(r)
        IN  /\ hist' = [hist EXCEPT ![p].backend = TRUE,
                          ![p].found = IF r = "found" THEN @ \cup {t} ELSE @,
                          ![p].readErr = IF r = "error" THEN @ \cup {t} ELSE @,
                          ![p].failure = IF r = "error" THEN "read" ELSE @]
            /\ CASE d = "skip" ->
                      /\ pc' = [pc EXCEPT ![p] = AfterCA(p, t, firstStart[p])]
                      /\ UNCHANGED <<firstStart, result>>
                 [] d = "fail" ->
                      /\ Fail(p, "error")
                      /\ UNCHANGED firstStart
                 [] OTHER ->
                      /\ firstStart' = [firstStart EXCEPT ![p] = TRUE]
                      /\ pc' = [pc EXCEPT ![p] = UpsertPC(t)]
                      /\ UNCHANGED result
    /\ UNCHANGED <<clientVars, kvVars, conf, deployment, cfg, deferred, todo, pending, identity, runId, starts, ca,
                   tokens, lock, files, dirExists>>

\* lines 132-147 and 158-173: generate a pair unless the configuration
\* carries the CA, then UpsertCertAuthority(ca, backend.Forever)
UpsertCertAuthority(p, t) ==
    /\ pc[p] = UpsertPC(t)
    /\ \E genOK \in BOOLEAN, upOK \in BOOLEAN :
        LET supplied == cfg[p].CA[t]
            c == CAToStore(supplied, NewCA(t, KeyId(p, runId[p], t)))
        IN  IF supplied = NoCA /\ ~genOK
              THEN /\ Fail(p, "error")
                   /\ UNCHANGED <<cfg, ca, hist>>
              ELSE /\ cfg' = [cfg EXCEPT ![p].CA[t] = c]
                   /\ hist' = [hist EXCEPT ![p].backend = TRUE,
                                 ![p].generated = IF supplied = NoCA THEN @ \cup {t} ELSE @,
                                 ![p].upserted = @ \cup {t},
                                 ![p].failure = IF upOK THEN @ ELSE "upsertCA"]
                   /\ IF upOK
                        THEN /\ ca' = [ca EXCEPT ![t] = [kind |-> "stored", val |-> c, ttl |-> CATTL]]
                             /\ pc' = [pc EXCEPT ![p] = AfterCA(p, t, firstStart[p])]
                             /\ UNCHANGED result
                        ELSE /\ Fail(p, "error")
                             /\ UNCHANGED ca
    /\ UNCHANGED <<clientVars, kvVars, conf, deployment, firstStart, deferred, todo, pending, identity, runId,
                   starts, tokens, lock, files, dirExists>>

\* lines 178-189: one iteration of the range over cfg.AllowedTokens (Go
\* visits the entries of a map in no fixed order)
UpsertToken(p) ==
    /\ pc[p] = "tokens"
    /\ \E e \in todo[p], upOK \in BOOLEAN :
        LET s == SplitTokenRole(e)
        IN  IF s.err \/ ~upOK
              THEN /\ Fail(p, "error")
                   /\ hist' = [hist EXCEPT ![p].backend = @ \/ ~s.err,
                                 ![p].failure = IF s.err THEN @ ELSE "upsertToken"]
                   /\ UNCHANGED <<tokens, todo>>
              ELSE /\ tokens' = [tokens EXCEPT ![s.token] =
                                   [kind |-> "token", role |-> s.role, ttl |-> InitTokenTTL]]
                   /\ todo' = [todo EXCEPT ![p] = @ \ {e}]
                   /\ hist' = [hist EXCEPT ![p].backend = TRUE,
                                 ![p].stored = @ \cup {s.token}]
                   /\ pc' = [pc EXCEPT ![p] =
                               IF todo[p] = {e} THEN "init_keys" ELSE "tokens"]
                   /\ UNCHANGED result
    /\ UNCHANGED <<clientVars, kvVars, conf, deployment, cfg, firstStart, deferred, pending, identity, runId,
                   starts, ca, lock, files, dirExists>>

----------------------------------------------------------------------------
(* initKeys, lines 202-233, and writeKeys, lines 237-248.  The files of a  *)
(* DataDir are touched by its own replica only, so the file operations of  *)
(* one call are taken in one step; where the call stops (an error or a     *)
(* crash between two file operations) is an outcome of the step.           *)

\* ioutil.WriteFile creates or truncates the file, then writes the content
\* and closes it.  writeKeys writes the key (line 241), then the
\* certificate (line 244): the files after n of these four operations
writeKeys(fs, key, cert, n) ==
    [f \in FileNames |->
        IF f = "key"
          THEN (IF n = 0 THEN fs[f] ELSE IF n = 1 THEN Partial ELSE key)
          ELSE (IF n <= 2 THEN fs[f] ELSE IF n = 3 THEN Partial ELSE cert)]

WriteSteps == 4

\* the end of initKeys and of Init: ReadIdentity (line 228), and Init
\* returns the identity or the error (lines 193-198)
Finish(p, fs) ==
    LET i == ReadIdentity(fs["key"], fs["cert"])
    IN  IF i = NoIdentity
          THEN /\ Fail(p, "error")
               /\ UNCHANGED identity
          ELSE /\ identity' = [identity EXCEPT ![p] = i]
               /\ result' = [result EXCEPT ![p] = "ok"]
               /\ pc' = [pc EXCEPT ![p] = ExitPC(deferred[p])]

\* the process dies: its memory is gone, nothing it deferred runs
Die(p) ==
    /\ pc' = [pc EXCEPT ![p] = "crashed"]
    /\ hist' = [hist EXCEPT ![p] = NewHist]
    /\ cfg' = [cfg EXCEPT ![p] = NoCfg]
    /\ firstStart' = [firstStart EXCEPT ![p] = FALSE]
    /\ deferred' = [deferred EXCEPT ![p] = FALSE]
    /\ todo' = [todo EXCEPT ![p] = {}]
    /\ pending' = [pending EXCEPT ![p] = NoPending]
    /\ result' = [result EXCEPT ![p] = "none"]
    /\ identity' = [identity EXCEPT ![p] = NoIdentity]

\* lines 203-219: both paths are stat'ed; when both files exist the
\* identity is read from them, otherwise a key pair is generated
initKeys(p) ==
    /\ pc[p] = "init_keys"
    /\ \E statOK \in BOOLEAN, genOK \in BOOLEAN :
        LET keyExists == pathExists(files[p]["key"])
            certExists == pathExists(files[p]["cert"])
            h == [hist[p] EXCEPT !.both = keyExists /\ certExists,
                                 !.atStat = files[p]]
        IN  IF ~statOK
              THEN /\ Fail(p, "error")
                   /\ UNCHANGED <<hist, pending, identity>>
              ELSE IF ~NeedBootstrap(keyExists, certExists)
                THEN /\ Finish(p, files[p])
                     /\ hist' = [hist EXCEPT ![p] = h]
                     /\ UNCHANGED pending
              ELSE IF ~genOK
                THEN /\ Fail(p, "error")
                     /\ hist' = [hist EXCEPT ![p] = h]
                     /\ UNCHANGED <<pending, identity>>
              ELSE /\ pending' = [pending EXCEPT ![p] =
                        [kind |-> "key", k |-> KeyId(p, runId[p], "identity")]]
                   /\ hist' = [hist EXCEPT ![p] = [h EXCEPT !.hostKey = TRUE]]
                   /\ pc' = [pc EXCEPT ![p] = "gen_cert"]
                   /\ UNCHANGED <<result, identity>>
    /\ UNCHANGED <<clientVars, kvVars, conf, deployment, cfg, firstStart, deferred, todo, runId, starts, ca, tokens,
                   lock, files, dirExists>>

\* lines 220-232: GenerateHostCert signed by the stored host-CA, writeKeys,
\* ReadIdentity
GenerateHostCertStep(p) ==
    /\ pc[p] = "gen_cert"
    /\ \E certOK \in BOOLEAN, n \in 0..WriteSteps, crash \in BOOLEAN :
        LET key == pending[p]
            fs == writeKeys(files[p], key,
                            GenerateHostCert(key.k, cfg[p].HostUUID, RoleAdmin,
                                             ca["host"].val), n)
            h == [hist[p] EXCEPT !.certReq = TRUE, !.backend = TRUE]
        IN  IF ~certOK \/ ca["host"] = Absent
              THEN /\ Fail(p, "error")
                   /\ hist' = [hist EXCEPT ![p] = h]
                   /\ UNCHANGED <<files, identity, cfg, firstStart, deferred,
                                  todo, pending>>
              ELSE /\ files' = [files EXCEPT ![p] = fs]
                   /\ IF crash
                        THEN Die(p)
                        ELSE /\ hist' = [hist EXCEPT ![p] = [h EXCEPT !.wrote = n > 0]]
                             /\ IF n < WriteSteps
                                  THEN Fail(p, "error") /\ UNCHANGED identity
                                  ELSE Finish(p, fs)
                             /\ UNCHANGED <<cfg, firstStart, deferred, todo,
                                            pending>>
    /\ UNCHANGED <<clientVars, kvVars, conf, deployment, runId, starts, ca, tokens, lock, dirExists>>

\* line 116: the deferred lockService.ReleaseLock(cfg.DomainName), then
\* Init returns
ReleaseLockStep(p) ==
    /\ pc[p] = "release"
    /\ lock' = ReleaseLock(lock, p, runId[p])
    /\ pc' = [pc EXCEPT ![p] = "done"]
    /\ hist' = [hist EXCEPT ![p] = Summary(@)]
    /\ cfg' = [cfg EXCEPT ![p] = Returned(@)]
    /\ firstStart' = [firstStart EXCEPT ![p] = FALSE]
    /\ deferred' = [deferred EXCEPT ![p] = FALSE]
    /\ todo' = [todo EXCEPT ![p] = {}]
    /\ pending' = [pending EXCEPT ![p] = NoPending]
    /\ UNCHANGED <<clientVars, kvVars, conf, deployment, result, identity, runId, starts, ca, tokens, files,
                   dirExists>>

----------------------------------------------------------------------------
(* The environment.                                                        *)

\* the process dies between two steps of Init
Crash(p) ==
    /\ pc[p] \in Running
    /\ Die(p)
    /\ UNCHANGED <<clientVars, kvVars, conf, deployment, runId, starts, ca, tokens, lock, files, dirExists>>

\* the ttl of the lock elapses: the backend drops it
LockExpire ==
    /\ lock # NoLock
    /\ lock.ttl # Forever
    /\ lock' = NoLock
    /\ UNCHANGED <<clientVars, kvVars, conf, deployment, pc, cfg, firstStart, deferred, todo, pending, result,
                   identity, runId, starts, ca, tokens, files, dirExists, hist>>

Next ==
    \/ \E p \in Procs : InitStart(p)
    \/ \E p \in Procs : AcquireLock(p)
    \/ \E p \in Procs : AcquireLockFail(p)
    \/ \E p \in Procs, t \in CATypes : GetCertAuthority(p, t)
    \/ \E p \in Procs, t \in CATypes : UpsertCertAuthority(p, t)
    \/ \E p \in Procs : UpsertToken(p)
    \/ \E p \in Procs : initKeys(p)
    \/ \E p \in Procs : GenerateHostCertStep(p)
    \/ \E p \in Procs : ReleaseLockStep(p)
    \/ \E p \in Procs : Crash(p)
    \/ LockExpire

Spec == Init /\ [][Next]_vars

----------------------------------------------------------------------------
(* ReadIdentity on a DataDir it did not write.  ReadIdentity is exported   *)
(* and reads whatever the two paths hold: files of an earlier bootstrap,   *)
(* files cut short by a crash, or files an operator copied there.          *)

\* the host key pairs in play and the host-CA that signs their certificates
IdentityKeys == {KeyId("a1", 1, "identity"), KeyId("a2", 1, "identity")}
IdentityCA == NewCA("host", KeyId("a1", 1, "host"))

\* what a key path or a certificate path can hold: nothing, bytes that do
\* not parse, a private key, a host certificate, or a plain public key in
\* authorized_keys format
IdentityFileChoices ==
    {Absent, Partial}
      \cup {[kind |-> "key", k |-> k] : k \in IdentityKeys}
      \cup {GenerateHostCert(k, "a1", RoleAdmin, IdentityCA) : k \in IdentityKeys}
      \cup {[kind |-> "pubkey", Key |-> Pub(k)] : k \in IdentityKeys}

IdentityInit ==
    /\ deployment = Single
    /\ AuthIdle
    /\ ClientIdle
    /\ KVIdle
    /\ files \in [Procs -> [FileNames -> IdentityFileChoices]]
    /\ files["a2"] = [f \in FileNames |-> Absent]

\* a caller reads the identity of a DataDir: ReadIdentity(dataDir, id)
ReadIdentityCall(p) ==
    /\ pc[p] = "idle"
    /\ Finish(p, files[p])
    /\ UNCHANGED <<clientVars, kvVars, conf, deployment, cfg, firstStart, deferred, todo, pending, runId,
                   starts, ca, tokens, lock, files, dirExists, hist>>

IdentityNext == \E p \in {"a1"} : ReadIdentityCall(p)

IdentitySpec == IdentityInit /\ [][IdentityNext]_vars

----------------------------------------------------------------------------
(* AddHostSignersToCache and CheckHostSignature (keystore, lines 51-100).  *)
(* boltbk.New opens hostsigners.db under the file lock of the database, so *)
(* a call works on the cache alone or fails to open it; each call is one   *)
(* step.                                                                   *)

\* longest list of CAs passed to one AddHostSignersToCache call
MaxSigners == 2

RECURSIVE SignerListsUpTo(_)
SignerListsUpTo(n) ==
    IF n = 0 THEN {<<>>}
    ELSE SignerListsUpTo(n - 1)
           \cup UNION {{Append(l, c) : c \in TrustCAs \ {l[i] : i \in 1..Len(l)}} :
                          l \in SignerListsUpTo(n - 1)}
SignerLists == SignerListsUpTo(MaxSigners)

\* the host keys a server can present in the SSH handshake: a host
\* certificate signed by some key, or a plain public key
NodeKey == KeyId("node", 1, "identity")
HostCertSignedBy(sig) ==
    [kind |-> "cert", Key |-> Pub(NodeKey), SignatureKey |-> sig,
     Principal |-> "node", Role |-> "node"]
RawKey(k) == [kind |-> "pubkey", Key |-> Pub(k)]
KnownCheckers ==
    UNION {{c.CheckingKeys[i] : i \in 1..Len(c.CheckingKeys)} : c \in TrustCAs}
PresentedKeys ==
    {HostCertSignedBy(k) : k \in KnownCheckers \cup {Pub(KeyId("X", 1, "host"))}}
      \cup {RawKey(KeyId("A", 1, "host")), RawKey(NodeKey)}

\* sshutils.KeysEqual: equality of the marshalled keys
KeysEqual(a, b) == a = b

\* CAService.GetCertAuthorities(type): the stored CAs of that type
GetCertAuthorities(c, type) ==
    LET stored == SelectSeq(CacheIds, LAMBDA id : c[id] # Absent /\ id[1] = type)
    IN  [i \in 1..Len(stored) |-> c[stored[i]]]

\* CAService.UpsertCertAuthority(ca, 0): stores the CA under its id
UpsertInto(c, a) == [c EXCEPT ![CAId(a)] = a]

\* the first n upserts of the loop of lines 59-64
RECURSIVE UpsertFirst(_, _, _)
UpsertFirst(c, list, n) ==
    IF n = 0 \/ list = <<>> THEN c
    ELSE UpsertFirst(UpsertInto(c, Head(list)), Tail(list), n - 1)

\* lines 88-98: some checker of some CA of the list equals the signature
\* key of the certificate
MatchesFirstCheckerOnly(cert, cas) ==
    \E i \in 1..Len(cas) : KeysEqual(cert.SignatureKey, cas[i].CheckingKeys[1])

MatchesAuthority(cert, cas) ==
    \E i \in 1..Len(cas) : \E j \in 1..Len(cas[i].CheckingKeys) :
        KeysEqual(cert.SignatureKey, cas[i].CheckingKeys[j])

\* CheckHostSignature, lines 70-100: what it returns ("nil" is success) and
\* how far it got with the trust cache.  trace.Wrap(nil) is nil.
CheckHostSignatureRawKeys(key, openOK, readOK, c) ==
    IF ~openOK
      THEN [result |-> "nil", open |-> "failed", read |-> "not called"]
    ELSE IF ~readOK
      THEN [result |-> "error", open |-> "ok", read |-> "failed"]
    ELSE IF \/ key.kind = "cert" /\ MatchesAuthority(key, GetCertAuthorities(c, "host"))
            \/ key.kind # "cert"
                 /\ MatchesAuthority([SignatureKey |-> key.Key],
                                     GetCertAuthorities(c, "host"))
      THEN [result |-> "nil", open |-> "ok", read |-> "ok"]
    ELSE [result |-> "no matching authority found", open |-> "ok", read |-> "ok"]

CheckHostSignature(key, openOK, readOK, c) ==
    IF key.kind # "cert"                                      \* lines 71-74
      THEN [result |-> "expected certificate", open |-> "not called",
            read |-> "not called"]
    ELSE IF ~openOK                                           \* lines 76-79
      THEN [result |-> "nil", open |-> "failed", read |-> "not called"]
    ELSE IF ~readOK                                           \* lines 83-86
      THEN [result |-> "error", open |-> "ok", read |-> "failed"]
    ELSE IF MatchesAuthority(key, GetCertAuthorities(c, "host"))   \* 88-98
      THEN [result |-> "nil", open |-> "ok", read |-> "ok"]
    ELSE [result |-> "no matching authority found", open |-> "ok",  \* line 99
          read |-> "ok"]

\* AddHostSignersToCache, lines 51-66: the cache after the call in which
\* the database opened or not and the first n upserts succeeded.  The call
\* returns trace.Wrap(nil) on either failure and nil at the end.
AddHostSignersToCache(list, openOK, n, c) ==
    [result |-> "nil",
     open |-> IF openOK THEN "ok" ELSE "failed",
     cache |-> IF openOK THEN UpsertFirst(c, list, n) ELSE c]

\* a login hands the CAs of the proxy to AddHostSignersToCache
AddHostSignersToCacheCall ==
    \E list \in SignerLists, openOK \in BOOLEAN, n \in 0..MaxSigners :
        LET r == AddHostSignersToCache(list, openOK, n, cache)
        IN  /\ n <= Len(list)
            /\ ~openOK => n = 0
            /\ cache' = r.cache
            /\ passed' = UpsertFirst(passed, list, Len(list))
            /\ call' = [op |-> "add", signers |-> list, open |-> r.open,
                        upserted |-> n, result |-> r.result]
            /\ UNCHANGED <<keyDir, pastDeadline, reader, writer, kvVars, conf>>
            /\ UNCHANGED <<deployment, pc, cfg, firstStart, deferred, todo, pending,
                           result, identity, runId, starts, ca, tokens, lock, files,
                           dirExists, hist>>

\* the SSH client's host key callback checks the key a server presents
CheckHostSignatureCall ==
    \E key \in PresentedKeys, openOK \in BOOLEAN, readOK \in BOOLEAN :
        LET r == CheckHostSignature(key, openOK, readOK, cache)
        IN  /\ call' = [op |-> "check", key |-> key, open |-> r.open,
                        read |-> r.read, result |-> r.result]
            /\ UNCHANGED <<cache, passed, keyDir, pastDeadline, reader, writer, kvVars, conf>>
            /\ UNCHANGED <<deployment, pc, cfg, firstStart, deferred, todo, pending,
                           result, identity, runId, starts, ca, tokens, lock, files,
                           dirExists, hist>>

TrustInit ==
    /\ deployment = Single
    /\ AuthIdle
    /\ files = [p \in Procs |-> [f \in FileNames |-> Absent]]
    /\ ClientIdle
    /\ KVIdle

TrustNext == AddHostSignersToCacheCall \/ CheckHostSignatureCall

TrustSpec == TrustInit /\ [][TrustNext]_vars

----------------------------------------------------------------------------
(* The key files of the client (keystore, lines 104-234): saveKey run by   *)
(* the login process, GetLocalAgent run by a client that connects.  The    *)
(* two are separate processes on one directory; every file system call is  *)
(* a step.                                                                 *)

\* number of keys the login process saves
MaxKeys == 3

\* the Key a login obtains: private key, user certificate and the deadline
\* of the certificate; key n carries deadline n
NewKey(n) ==
    [Priv |-> Priv(KeyId("user", n, "login")),
     Cert |-> [kind |-> "cert", Key |-> Pub(KeyId("user", n, "login")),
               SignatureKey |-> UserSignerA.CheckingKeys[1],
               Principal |-> "user", Role |-> "user"],
     Deadline |-> n]

\* json.Marshal(key), line 178: the bytes of a key file
MarshalKey(key) ==
    [kind |-> "tkey", priv |-> key.Priv, cert |-> key.Cert, deadline |-> key.Deadline]

\* loadKey, lines 190-205: ioutil.ReadFile and json.Unmarshal of the bytes
loadKey(bytes) ==
    IF bytes.kind = "absent" THEN [err |-> TRUE, key |-> NoPending]
    ELSE IF bytes.kind # "tkey" THEN [err |-> TRUE, key |-> NoPending]
    ELSE [err |-> FALSE,
          key |-> [Priv |-> bytes.priv, Cert |-> bytes.cert,
                   Deadline |-> bytes.deadline]]

\* line 222: time.Now().Before(key.Deadline)
BeforeDeadlineAlways(deadline, past) == TRUE

BeforeDeadline(deadline, past) == deadline \notin past

\* lines 114-132: the agent.AddedKey of every loaded key, at the same index
AddedKey(key) ==
    [PrivateKey |-> key.Priv, Certificate |-> key.Cert, Comment |-> "",
     LifetimeSecs |-> 0, ConfirmBeforeUse |-> FALSE]

GetLocalAgentKeysSkipFirst(keys) ==
    [i \in 1..(Len(keys) - 1) |-> AddedKey(keys[i + 1])]

GetLocalAgentKeys(keys) == [i \in 1..Len(keys) |-> AddedKey(keys[i])]

\* lines 209-215: ioutil.ReadDir lists the entries sorted by name; the
\* entries of the listing the loop of loadAllKeys works on (an entry that
\* fails the test is passed over without any file access)
ListKeyFiles(dir) ==
    SelectSeq(DirNames,
              LAMBDA f : /\ dir[f] # Absent
                         /\ ~IsDir(dir[f])
                         /\ HasPrefix(f, KeyFilePrefix)
                         /\ HasSuffix(f, KeyFileSuffix))

\* lines 138-139, 105-113, 209-212: GetLocalAgent is called; initKeysDir
\* and ReadDir succeed, or the call returns the error
GetLocalAgentStart ==
    /\ reader.pc \in {"idle", "done"}
    /\ \E dirOK \in BOOLEAN :
          reader' = IF dirOK
                      THEN [ReaderIdle EXCEPT !.pc = "load",
                                              !.listed = ListKeyFiles(keyDir),
                                              !.names = ListKeyFiles(keyDir)]
                      ELSE [ReaderIdle EXCEPT !.pc = "done", !.result = "error"]
    /\ UNCHANGED <<authVars, kvVars, conf, cache, passed, call, keyDir, pastDeadline, writer>>

\* lines 213-224: loadKey of the next file of the listing; a key before
\* its deadline is appended, an unreadable file is logged and skipped
LoadKeyStep ==
    /\ reader.pc = "load"
    /\ reader.names # <<>>
    /\ LET f == Head(reader.names)
           r == loadKey(keyDir[f])
           past == ~r.err /\ ~BeforeDeadline(r.key.Deadline, pastDeadline)
       IN  reader' = [reader EXCEPT
                        !.names = Tail(@),
                        !.seen = Append(@, [file |-> f, content |-> keyDir[f],
                                            past |-> past]),
                        !.keys = IF ~r.err /\ ~past THEN Append(@, r.key) ELSE @,
                        !.pc = IF past THEN "remove" ELSE "load",
                        !.cur = IF past THEN f ELSE ""]
    /\ UNCHANGED <<authVars, kvVars, conf, cache, passed, call, keyDir, pastDeadline, writer>>

\* lines 225-229: os.Remove of the file of a key past its deadline; a
\* failure is logged.  Unlinking a file the writer has open leaves the
\* writer with a file that has no name.
RemoveStep ==
    /\ reader.pc = "remove"
    /\ \E ok \in BOOLEAN :
          IF ok /\ keyDir[reader.cur] # Absent
            THEN /\ keyDir' = [keyDir EXCEPT ![reader.cur] = Absent]
                 /\ reader' = [reader EXCEPT !.pc = "load", !.cur = ""]
                 /\ writer' = IF writer.pc = "write" /\ writer.file = reader.cur
                                THEN [writer EXCEPT !.unlinked = TRUE]
                                ELSE writer
            ELSE /\ reader' = [reader EXCEPT !.pc = "load", !.cur = "",
                                             !.removeFailed = @ \cup {reader.cur}]
                 /\ UNCHANGED <<keyDir, writer>>
    /\ UNCHANGED <<authVars, kvVars, conf, cache, passed, call, pastDeadline>>

\* lines 233, 114-133, 143-149: loadAllKeys returns, every key is parsed
\* and added to a new keyring in order
ReturnAgent ==
    /\ reader.pc = "load"
    /\ reader.names = <<>>
    /\ reader' = [reader EXCEPT !.pc = "done", !.result = "ok",
                                !.agent = GetLocalAgentKeys(reader.keys)]
    /\ UNCHANGED <<authVars, kvVars, conf, cache, passed, call, keyDir, pastDeadline, writer>>

\* saveKey, lines 173-183: a login saves a new key; ioutil.WriteFile opens
\* the file with O_CREATE|O_TRUNC
SaveKeyStart ==
    /\ writer.pc = "idle"
    /\ writer.made < MaxKeys
    /\ \E f \in KeyFileSet :
          /\ writer' = [pc |-> "write", file |-> f, key |-> writer.made + 1,
                        made |-> writer.made + 1, unlinked |-> FALSE]
          /\ keyDir' = [keyDir EXCEPT ![f] = Partial]
    /\ UNCHANGED <<authVars, kvVars, conf, cache, passed, call, pastDeadline, reader>>

\* line 183: ioutil.WriteFile writes the bytes and closes the file, or
\* fails part way
SaveKeyWrite ==
    /\ writer.pc = "write"
    /\ \E ok \in BOOLEAN :
          keyDir' = IF writer.unlinked THEN keyDir
                    ELSE [keyDir EXCEPT ![writer.file] =
                            IF ok THEN MarshalKey(NewKey(writer.key)) ELSE Partial]
    /\ writer' = [WriterIdle EXCEPT !.made = writer.made]
    /\ UNCHANGED <<authVars, kvVars, conf, cache, passed, call, pastDeadline, reader>>

\* the clock passes the deadline of a key
PassDeadline ==
    /\ \E d \in 1..writer.made :
          /\ d \notin pastDeadline
          /\ pastDeadline' = pastDeadline \cup {d}
    /\ UNCHANGED <<authVars, kvVars, conf, cache, passed, call, keyDir, reader, writer>>

\* the keys directory before the first login of the model: the trust
\* cache, a key an earlier login saved under a name without the suffix,
\* whose deadline has passed, and a directory
KeysInit ==
    /\ deployment = Single
    /\ AuthIdle
    /\ files = [p \in Procs |-> [f \in FileNames |-> Absent]]
    /\ cache = EmptyCache
    /\ passed = EmptyCache
    /\ call = NoCall
    /\ keyDir =
         [f \in DirSet |->
             CASE f = "hostsigners.db" -> [kind |-> "boltdb"]
               [] f = "teleport_a" -> MarshalKey(NewKey(0))
               [] f = "teleport_d.tkey" -> [kind |-> "dir"]
               [] OTHER -> Absent]
    /\ pastDeadline = {0}
    /\ reader = ReaderIdle
    /\ writer = WriterIdle
    /\ KVIdle

KeysNext ==
    \/ GetLocalAgentStart
    \/ LoadKeyStep
    \/ RemoveStep
    \/ ReturnAgent
    \/ SaveKeyStart
    \/ SaveKeyWrite
    \/ PassDeadline

KeysSpec == KeysInit /\ [][KeysNext]_vars

----------------------------------------------------------------------------
(* CompareAndSwap of the backend, on one key, called by several clients at *)
(* once while another client may Put the key.                              *)

Values == {"a", "b"}

\* CompareAndSwap(path, key, old, new, ttl) on the stored record cur: the
\* error it returns ("nil" is success) and the record it leaves
CompareAndSwapBlind(cur, old, new, ttl) ==
    [err |-> "nil",
     kv |-> [cur EXCEPT !.kind = "value", !.val = new, !.ttl = ttl, !.ver = @ + 1]]

CompareAndSwap(cur, old, new, ttl) ==
    IF cur.kind = "value" /\ cur.val = old
      THEN [err |-> "nil",
            kv |-> [cur EXCEPT !.val = new, !.ttl = ttl, !.ver = @ + 1]]
      ELSE [err |-> "compare-failed", kv |-> cur]

\* the backend executes the call of client c
CompareAndSwapCall(c) ==
    /\ swaps[c].pc = "called"
    /\ LET r == CompareAndSwap(kv, swaps[c].old, swaps[c].new, Forever)
       IN  /\ kv' = r.kv
           /\ swaps' = [swaps EXCEPT ![c] =
                        [@ EXCEPT !.pc = "done",
                                  !.result = IF r.err = "nil" THEN "ok" ELSE r.err,
                                  !.ver = kv.ver,
                                  !.at = IF r.err = "nil" THEN r.kv.ver ELSE 0]]
    /\ UNCHANGED <<authVars, clientVars, conf, store, clock, got>>

\* Put(path, key, value, ttl) by another client
Put(v) ==
    /\ kv.puts < MaxPuts
    /\ kv' = [kind |-> "value", val |-> v, ttl |-> Forever, ver |-> kv.ver + 1,
              puts |-> kv.puts + 1]
    /\ UNCHANGED <<authVars, clientVars, conf, swaps, store, clock, got>>

\* every client has called CompareAndSwap with some old and new value; the
\* calls are in flight together
KVInit ==
    /\ deployment = Single
    /\ AuthIdle
    /\ files = [p \in Procs |-> [f \in FileNames |-> Absent]]
    /\ ClientIdle
    /\ TTLIdle
    /\ conf = [pc |-> "none"]
    /\ kv = NoValue
    /\ swaps \in [CasCallers -> {[NoSwap EXCEPT !.pc = "called", !.old = o, !.new = n] :
                                 o \in Values, n \in Values}]

KVNext ==
    \/ \E c \in CasCallers : CompareAndSwapCall(c)
    \/ \E v \in Values : Put(v)

KVSpec == KVInit /\ [][KVNext]_vars

----------------------------------------------------------------------------
(* Expiry of the records of the backend.  Put stores a record with a ttl;  *)
(* a record whose ttl has elapsed is absent to Get and to List from then   *)
(* on, and the backend removes it at some later time of its choosing.      *)

\* number of steps of the clock, and the seconds of one step
MaxTicks == 3
TickSeconds == 400

\* the ttl a record is stored with: the ttl of a CA, of a provisioning
\* token and of the lock
TTLChoices == {CATTL, InitTokenTTL, LockTTL}

\* Put(bucket, key, value, ttl) at time now; ttl = 0 means forever
BackendPut(s, k, v, ttl, now) ==
    [s EXCEPT ![k] = [kind |-> "value", val |-> v, ttl |-> ttl, at |-> now,
                      reaped |-> FALSE]]

\* the ttl of the record has elapsed
Expired(e, now) == e.ttl # Forever /\ now - e.at >= e.ttl

\* Get(bucket, key) at time now: the value, or the not-found error
BackendGetUnreaped(s, k, now) ==
    IF s[k] = Absent \/ s[k].reaped THEN "not found" ELSE s[k].val

BackendGet(s, k, now) ==
    IF s[k] = Absent \/ s[k].reaped \/ Expired(s[k], now) THEN "not found"
    ELSE s[k].val

\* GetKeys(bucket) at time now
BackendList(s, now) == {k \in StoreKeys : BackendGet(s, k, now) # "not found"}

\* a client stores a record under k
PutKey(k, ttl) ==
    /\ store' = BackendPut(store, k, "v", ttl, clock)
    /\ UNCHANGED <<authVars, clientVars, conf, kv, swaps, clock, got>>

\* a client reads k
GetKey(k) ==
    /\ got' = [op |-> "get", key |-> k, at |-> clock, found |-> store[k],
               result |-> BackendGet(store, k, clock), keys |-> {}]
    /\ UNCHANGED <<authVars, clientVars, conf, kv, swaps, store, clock>>

\* a client lists the keys of the bucket
ListKeys ==
    /\ got' = [op |-> "list", key |-> "", at |-> clock, found |-> store,
               result |-> "nil", keys |-> BackendList(store, clock)]
    /\ UNCHANGED <<authVars, clientVars, conf, kv, swaps, store, clock>>

\* the backend removes a record whose ttl has elapsed
Reap(k) ==
    /\ store[k] # Absent
    /\ ~store[k].reaped
    /\ Expired(store[k], clock)
    /\ store' = [store EXCEPT ![k].reaped = TRUE]
    /\ UNCHANGED <<authVars, clientVars, conf, kv, swaps, clock, got>>

\* time passes
Tick ==
    /\ clock < MaxTicks * TickSeconds
    /\ clock' = clock + TickSeconds
    /\ UNCHANGED <<authVars, clientVars, conf, kv, swaps, store, got>>

TTLInit ==
    /\ deployment = Single
    /\ AuthIdle
    /\ files = [p \in Procs |-> [f \in FileNames |-> Absent]]
    /\ ClientIdle
    /\ KVIdle

TTLNext ==
    \/ \E k \in StoreKeys, ttl \in TTLChoices : PutKey(k, ttl)
    \/ \E k \in StoreKeys : GetKey(k)
    \/ ListKeys
    \/ \E k \in StoreKeys : Reap(k)
    \/ Tick

TTLSpec == TTLInit /\ [][TTLNext]_vars

----------------------------------------------------------------------------
(* configure (tool/teleport/configuration.go) merges the defaults, the     *)
(* configuration file and the command line flags into the service.Config   *)
(* of a starting teleport process.  It runs once, before any service       *)
(* starts; the call is one step.                                           *)

\* defaults.RoleNode, defaults.RoleProxy, defaults.RoleAuthService
RoleNode == "node"
RoleProxy == "proxy"
RoleAuthService == "auth"

\* the elements a --roles value is made of, and for each the role names
\* that occur in it as a substring
RoleSubstrings ==
    [e \in {"auth", "node", "proxy", "nodes", ""} |->
        CASE e = "nodes" -> {RoleNode}
          [] e = "" -> {}
          [] OTHER -> {e}]

\* strings.Index(roles, role) != -1: a role name holds no comma, so it
\* occurs in the string exactly when it occurs in one of the elements
RolesIndex(roles, role) ==
    \E i \in 1..Len(roles) : role \in RoleSubstrings[roles[i]]

\* validateRoles, lines 453-465: TRUE when it returns nil
validateRolesAny(roles) == TRUE

validateRoles(roles) ==
    \A i \in 1..Len(roles) : roles[i] \in {RoleAuthService, RoleNode, RoleProxy}

\* addresses as they are written: host and port, port 0 when none is
\* written
EmptyAddr == [host |-> "", port |-> 0]
BadAddr == [host |-> "not an address", port |-> 0]
AuthListenPort == 3025
\* utils.NetAddr
NetAddr(host, port) == [AddrNetwork |-> "tcp", Addr |-> <<host, port>>]

\* utils.ParseHostPortAddr(s, defaultPort) and utils.ParseAddr(s)
ParseHostPortAddr(a, defaultPort) ==
    IF a = BadAddr THEN [err |-> TRUE, addr |-> EmptyAddr]
    ELSE [err |-> FALSE,
          addr |-> NetAddr(a.host, IF a.port = 0 THEN defaultPort ELSE a.port)]
ParseAddr(a) ==
    IF a = BadAddr THEN [err |-> TRUE, addr |-> EmptyAddr]
    ELSE [err |-> FALSE, addr |-> NetAddr(a.host, a.port)]

\* net.IP values: nil, two addresses of the local network, the loopback
NoIP == "nil"

\* validateAdvertiseIP, lines 467-472: TRUE when it returns nil
validateAdvertiseIP(ip) == ip \notin {"127.0.0.1", "0.0.0.0", "224.0.0.1"}

\* limiter.LimiterConfig as defaults.ConfigureLimiter leaves it
DefaultLimiter == [MaxConnections |-> 1000, MaxNumberOfUsers |-> 250, Rates |-> <<>>]
NoLimits == [MaxConnections |-> 0, MaxUsers |-> 0, Rates |-> <<>>]
\* service.MakeDefaultConfig, cfg.go lines 345-385
DefaultHostname == "localhost"
MakeDefaultConfig ==
    [Hostname |-> DefaultHostname,
     AuthServers |-> <<NetAddr("0.0.0.0", AuthListenPort)>>,
     AdvertiseIP |-> NoIP,
     SSH |-> [Enabled |-> TRUE, Token |-> "", Limiter |-> DefaultLimiter],
     Auth |-> [Enabled |-> TRUE, Token |-> "", Limiter |-> DefaultLimiter,
               DomainName |-> ""],
     Proxy |-> [Enabled |-> TRUE, Token |-> "", Limiter |-> DefaultLimiter,
                AssetsDir |-> "/var/lib/teleport"],
     ReverseTunnel |-> [Enabled |-> FALSE]]

\* Config.ApplyToken, cfg.go lines 77-85: the Config after the call and the
\* value returned
ApplyTokenAlways(config, token) ==
    [cfg |-> [config EXCEPT !.SSH.Token = token, !.Proxy.Token = token,
                         !.Auth.Token = token],
     ret |-> TRUE]

ApplyToken(config, token) ==
    IF token # ""
      THEN [cfg |-> [config EXCEPT !.SSH.Token = token, !.Proxy.Token = token,
                                !.Auth.Token = token],
            ret |-> TRUE]
      ELSE [cfg |-> config, ret |-> FALSE]

\* applyString, lines 257-265: the target after the call
applyStringAlways(src, target) == src

applyString(src, target) == IF src # "" THEN src ELSE target

\* lines 178-192: the body of the loop over the limiters, on the loop
\* variable l
ApplyLimits(l, limits) ==
    [MaxConnections |-> IF limits.MaxConnections > 0 THEN limits.MaxConnections
                        ELSE l.MaxConnections,
     MaxNumberOfUsers |-> IF limits.MaxUsers > 0 THEN limits.MaxUsers
                          ELSE l.MaxNumberOfUsers,
     Rates |-> l.Rates \o limits.Rates]

\* the configuration file: absent, or the FileConfig read from it.  NoFile
\* is the nil pointer, also that of the *Config of a failed configure.
NoFile == [kind |-> "nil"]
FileConfigs ==
    { [kind |-> "file", NodeName |-> n, AuthServers |-> as, AuthToken |-> t,
       AdvertiseIP |-> ip, Disabled |-> d, DomainName |-> "example.com",
       Limits |-> l] :
        n \in {"", "file-node"},
        as \in {<<>>, <<[host |-> "file-auth", port |-> 3025]>>, <<BadAddr>>},
        t \in {"", "file-token"},
        ip \in {NoIP, "10.2.2.2"},
        d \in {{}, {RoleAuthService}, {RoleNode, RoleProxy}},
        l \in { NoLimits,
      [MaxConnections |-> 5, MaxUsers |-> 7,
       Rates |-> <<[Period |-> 60, Average |-> 10, Burst |-> 20]>>] } }

\* applyFileConfig, lines 87-253 (storage, logger, listen addresses, TLS
\* files and labels are not set in the files considered): the error
\* returned, the Config it leaves and the ApplyToken call it made
applyFileConfig(fc, config) ==
    IF fc = NoFile THEN [err |-> "nil", cfg |-> config, tokenCalls |-> <<>>]
    ELSE
    LET c1 == [config EXCEPT                                         \* lines 93-102
                 !.Auth.Enabled = IF RoleAuthService \in fc.Disabled THEN FALSE ELSE @,
                 !.SSH.Enabled = IF RoleNode \in fc.Disabled THEN FALSE ELSE @,
                 !.Proxy.Enabled = IF RoleProxy \in fc.Disabled THEN FALSE ELSE @,
                 !.Hostname = applyString(fc.NodeName, @)]
    IN  IF fc.AdvertiseIP # NoIP /\ ~validateAdvertiseIP(fc.AdvertiseIP)
          THEN [err |-> "bad-parameter", cfg |-> c1, tokenCalls |-> <<>>]
        ELSE
        LET c2 == [c1 EXCEPT !.AdvertiseIP =                      \* lines 105-111
                      IF fc.AdvertiseIP # NoIP THEN fc.AdvertiseIP ELSE @]
        IN  IF \E i \in 1..Len(fc.AuthServers) : ParseAddr(fc.AuthServers[i]).err
              THEN [err |-> "error", cfg |-> c2, tokenCalls |-> <<>>]
            ELSE
            LET c3 == [c2 EXCEPT !.AuthServers =                  \* lines 114-123
                          IF Len(fc.AuthServers) > 0
                            THEN [i \in 1..Len(fc.AuthServers) |->
                                     ParseAddr(fc.AuthServers[i]).addr]
                            ELSE @]
                t == ApplyToken(c3, fc.AuthToken)                 \* line 124
                c4 == [t.cfg EXCEPT !.Auth.DomainName = fc.DomainName]
                \* lines 172-192: the slice holds copies of the three
                \* LimiterConfig fields and l is a copy of each element; the
                \* loop assigns to l, which is dropped at the end of every
                \* iteration, so the fields of cfg keep their values
                limiters == <<c4.SSH.Limiter, c4.Auth.Limiter, c4.Proxy.Limiter>>
                l == [i \in 1..3 |-> ApplyLimits(limiters[i], fc.Limits)]
            IN  [err |-> "nil", cfg |-> c4,
                 tokenCalls |-> <<[token |-> fc.AuthToken, before |-> c3,
                                   after |-> t.cfg, ret |-> t.ret]>>]

\* the command line flags; a --roles value is the list of the elements
\* between its commas, the empty list being the empty string
FlagChoices ==
    { [NodeName |-> n, AuthServerAddr |-> a, AuthToken |-> t, AdvertiseIP |-> ip,
       Roles |-> r] :
        n \in {"", "flag-node"},
        a \in {EmptyAddr, [host |-> "flag-auth", port |-> 0], BadAddr},
        t \in {"", "flag-token"},
        ip \in {NoIP, "10.1.1.1", "127.0.0.1"},
        r \in { <<>>, <<"auth">>, <<"node">>, <<"proxy", "auth">>, <<"nodes">>,
                <<"auth", "">> } }

\* configure, lines 267-347 (without --debug and --listen-ip, which touch
\* none of the fields followed here): the Config and the error returned,
\* the Config applyFileConfig left and the ApplyToken calls made.
\* labelsOK: parseLabels accepts the --labels value; assets: locateWebAssets
\* finds the web assets.
configure(clf, fc, labelsOK, assets) ==
    LET f == applyFileConfig(fc, MakeDefaultConfig)               \* lines 269-278
        none == [cfg |-> NoFile, err |-> "error", fileErr |-> f.err,
                 afterFile |-> f.cfg, tokenCalls |-> f.tokenCalls]
        roles == clf.Roles # <<>>
        server == clf.AuthServerAddr # EmptyAddr
        a == ParseHostPortAddr(clf.AuthServerAddr, AuthListenPort)
        c1 == [f.cfg EXCEPT                                       \* lines 292-295
                 !.SSH.Enabled =
                     IF roles THEN RolesIndex(clf.Roles, RoleNode) ELSE @,
                 !.Auth.Enabled =
                     IF roles THEN RolesIndex(clf.Roles, RoleAuthService) ELSE @,
                 !.Proxy.Enabled =
                     IF roles THEN RolesIndex(clf.Roles, RoleProxy) ELSE @,
                 !.ReverseTunnel.Enabled =
                     IF roles THEN RolesIndex(clf.Roles, RoleProxy) ELSE @]
        c2 == [c1 EXCEPT !.Auth.Enabled = IF server THEN FALSE ELSE @]  \* 299-303
        c3 == [c2 EXCEPT !.AuthServers = IF server THEN <<a.addr>> ELSE @] \* 309
        c4 == [c3 EXCEPT !.Hostname =                             \* lines 313-315
                   IF clf.NodeName # "" THEN clf.NodeName ELSE @]
        t == ApplyToken(c4, clf.AuthToken)                        \* line 318
        calls == Append(f.tokenCalls,
                        [token |-> clf.AuthToken, before |-> c4,
                         after |-> t.cfg, ret |-> t.ret])
        c5 == [t.cfg EXCEPT !.AdvertiseIP =                       \* line 330
                   IF clf.AdvertiseIP # NoIP THEN clf.AdvertiseIP ELSE @]
        c6 == [c5 EXCEPT !.Proxy =                                \* lines 339-344
                   IF @.Enabled
                     THEN [@ EXCEPT !.AssetsDir = "/usr/local/share/teleport"]
                     ELSE @]
    IN  IF f.err # "nil" THEN none
        ELSE IF roles /\ ~validateRoles(clf.Roles)                \* lines 288-291
          THEN [none EXCEPT !.cfg = f.cfg]
        ELSE IF server /\ a.err                                   \* lines 304-307
          THEN [none EXCEPT !.cfg = c2]
        ELSE IF clf.AdvertiseIP # NoIP /\ ~validateAdvertiseIP(clf.AdvertiseIP)
          THEN [none EXCEPT !.tokenCalls = calls]                 \* lines 326-329
        ELSE IF ~labelsOK                                         \* lines 334-336
          THEN [none EXCEPT !.tokenCalls = calls]
        ELSE IF c5.Proxy.Enabled /\ ~assets                       \* lines 339-341
          THEN [none EXCEPT !.tokenCalls = calls]
        ELSE [cfg |-> c6, err |-> "nil", fileErr |-> f.err, afterFile |-> f.cfg,
              tokenCalls |-> calls]

\* teleport start calls configure with its flags
ConfigureCall ==
    /\ conf.pc = "called"
    /\ LET r == configure(conf.clf, conf.fc, conf.labelsOK, conf.assets)
       IN  conf' = [conf EXCEPT !.pc = "returned", !.cfg = r.cfg, !.err = r.err,
                                !.fileErr = r.fileErr, !.afterFile = r.afterFile,
                                !.tokenCalls = r.tokenCalls]
    /\ UNCHANGED <<authVars, clientVars, kvVars>>

\* a teleport process starts with some flags, some configuration file or
\* none, and some installation
ConfigInit ==
    /\ deployment = Single
    /\ AuthIdle
    /\ files = [p \in Procs |-> [f \in FileNames |-> Absent]]
    /\ ClientIdle
    /\ kv = NoValue
    /\ swaps = [c \in CasCallers |-> NoSwap]
    /\ TTLIdle
    /\ conf \in {[pc |-> "called", clf |-> clf, fc |-> fc, labelsOK |-> e[1],
                  assets |-> e[2], cfg |-> NoFile, err |-> "none",
                  fileErr |-> "none", afterFile |-> NoFile,
                  tokenCalls |-> <<>>] :
                    clf \in FlagChoices, fc \in {NoFile} \cup FileConfigs,
                    e \in {<<TRUE, TRUE>>, <<FALSE, TRUE>>, <<TRUE, FALSE>>}}

ConfigNext == ConfigureCall

ConfigSpec == ConfigInit /\ [][ConfigNext]_vars

----------------------------------------------------------------------------
(* Properties.                                                             *)

\* the run of p still holds the lock it was granted
HoldsLock(p) == lock # NoLock /\ lock.holder = p /\ lock.run = runId[p]

\* the CA of type t that a run of replica p started from the cluster
\* configuration stores on a first start
ClusterCA(p, t) ==
    CAToStore(InitConfigCA(deployment.ca.via, deployment.ca[t]),
              NewCA(t, KeyId(p, runId[p], t)))

\* C1: of two Init runs of two replicas on one backend that held no CA, both
\* returned successfully, exactly one has upserted the host-CA and the
\* user-CA, the other has upserted nothing, and the backend holds the CAs
\* that the one run wrote.
C1_FirstStartSerialized ==
    ( /\ deployment.kind = "replicated"
      /\ starts = 2
      /\ \A p \in Procs : pc[p] = "done" /\ result[p] = "ok" )
    => \E p \in Procs :
          /\ hist[p].upserted = CATypes
          /\ \A q \in Procs \ {p} : hist[q].upserted = {}
          /\ \A t \in CATypes : ca[t] # Absent /\ ca[t].val = ClusterCA(p, t)

\* C2: the lock is mutually exclusive: an AcquireLock succeeds (the caller
\* goes on to defer the release) only in a step that takes the lock from
\* free to held by the caller, a held lock changes only by becoming free
\* (release by its holder, or its ttl elapsing), and a free lock can be
\* acquired by whoever is waiting for it.
C2_LockMutualExclusion ==
    /\ [][ /\ \A p \in Procs :
                (deferred'[p] /\ ~deferred[p])
                    => lock = NoLock /\ lock' = Granted(p, runId[p], LockTTL)
           /\ lock # NoLock => lock' \in {lock, NoLock}
           /\ \A p \in Procs : (HoldsLock(p) /\ lock' = NoLock /\ pc'[p] # "done")
                                  => pc'[p] = pc[p] ]_vars
    /\ [](\A p \in Procs : (lock = NoLock /\ pc[p] = "acquire_lock")
                              => ENABLED AcquireLock(p))

\* C2 witness: a1 died between upserting the host-CA and the user-CA, so it
\* never released the lock, and a2 has acquired the lock since.
C2_Witness ==
    /\ pc["a1"] = "crashed"
    /\ ca["host"] # Absent
    /\ ca["user"] = Absent
    /\ lock = Granted("a2", 2, LockTTL)
    /\ hist["a2"].found = {}

\* C3: no return of Init leaves the lock held by the run that returned.
C3_LockReleasedOnReturn ==
    \A p \in Procs : pc[p] = "done" => ~HoldsLock(p)

\* C3 witness: a run that had acquired the lock (it upserted a CA) has
\* returned an error, and the lock is free.
C3_Witness ==
    \E p \in Procs :
        /\ pc[p] = "done"
        /\ result[p] = "error"
        /\ hist[p].upserted # {}
        /\ lock = NoLock

\* a CA that Init generated, as opposed to one the operator supplied
Generated(c) == c # OperatorCA(c.Type)

\* C4: when Init has returned success the backend holds a host-CA and a
\* user-CA; every CA Init stored has ttl backend.Forever, and a generated
\* one has exactly one signing key and one checking key.
C4_BothCAsStoredForever ==
    /\ \A p \in Procs : result[p] = "ok" => \A t \in CATypes : ca[t] # Absent
    /\ \A t \in CATypes :
          ca[t] # Absent =>
             /\ ca[t].ttl = 0
             /\ Generated(ca[t].val) =>
                   /\ Len(ca[t].val.SigningKeys) = 1
                   /\ Len(ca[t].val.CheckingKeys) = 1

\* C4 witness: Init has returned success on a backend whose host-CA was
\* supplied and whose user-CA was generated.
C4_Witness ==
    \E p \in Procs :
        /\ pc[p] = "done"
        /\ result[p] = "ok"
        /\ ca["host"] # Absent /\ ~Generated(ca["host"].val)
        /\ ca["user"] # Absent /\ Generated(ca["user"].val)

\* C5: a run that found both CAs stored upserts no CA and stores no token;
\* with a single Auth server the stored CAs and tokens stay as they are
\* in every step from there to the return.
C5_RestartWritesNothing ==
    [][ \A p \in Procs :
          hist[p].found = CATypes =>
             /\ hist'[p].upserted = {}
             /\ hist'[p].stored = {}
             /\ deployment.kind = "single" => ca' = ca /\ tokens' = tokens ]_vars

\* C5 witness: a restart whose configuration carries a host-CA other than
\* the stored one and tokens is about to return success.
C5_Witness ==
    \E p \in Procs :
        /\ pc[p] = "release"
        /\ result[p] = "ok"
        /\ hist[p].found = CATypes
        /\ cfg[p].CA["host"] = OperatorCA("host")
        /\ ca["host"].val # OperatorCA("host")
        /\ cfg[p].AllowedTokens # {}

\* a run of p with an empty DataDir or an empty HostUUID
EmptyParameter(p) ==
    /\ runId[p] > 0
    /\ pc[p] # "crashed"
    /\ (cfg[p].DataDir = "" \/ cfg[p].HostUUID = "")

\* C6: Init called with an empty DataDir or an empty HostUUID returns
\* bad-parameter at once, with no AuthServer and no Identity: it has made no
\* directory, acquired no lock and made no backend call, and the step leaves
\* the directory, the files and the backend as they were.
C6_EmptyParameterFailsFast ==
    /\ [](\A p \in Procs :
            EmptyParameter(p) =>
               /\ pc[p] = "done"
               /\ result[p] = "bad-parameter"
               /\ identity[p] = NoIdentity
               /\ ~hist[p].mkdir /\ ~hist[p].acquired /\ ~hist[p].backend)
    /\ [][ \A p \in Procs :
             (runId'[p] # runId[p] /\ EmptyParameter(p)')
                => /\ dirExists' = dirExists /\ files' = files
                   /\ lock' = lock /\ ca' = ca /\ tokens' = tokens ]_vars

\* C6 witness: Init was called with a DataDir and an empty HostUUID and has
\* returned bad-parameter.
C6_Witness ==
    \E p \in Procs :
        /\ pc[p] = "done"
        /\ cfg[p].DataDir # ""
        /\ cfg[p].HostUUID = ""
        /\ result[p] = "bad-parameter"

\* C7: a run in which AcquireLock, a CA read (with an error other than
\* not-found), UpsertCertAuthority or UpsertToken failed returns an error,
\* with no AuthServer and no Identity, and a CA type whose read failed is
\* neither generated nor upserted by that run.
C7_BackendFailureIsFatal ==
    \A p \in Procs :
        /\ hist[p].failure # "none" =>
              /\ pc[p] \in {"release", "done"}
              /\ result[p] = "error"
              /\ identity[p] = NoIdentity
        /\ hist[p].readErr \cap (hist[p].generated \cup hist[p].upserted) = {}

\* C7 witness: the read of the user-CA failed after the host-CA had been
\* generated and upserted, and Init is about to return the error.
C7_Witness ==
    \E p \in Procs :
        /\ pc[p] = "release"
        /\ hist[p].readErr = {"user"}
        /\ hist[p].upserted = {"host"}
        /\ result[p] = "error"

\* C8: tokens are stored only by a run that is a first start, i.e. one that
\* found a CA absent; every stored token has a recognised role and a ttl of
\* 600 seconds; a first start that returns success had no entry with an
\* unrecognised role and has stored every entry under its secret.
C8_TokensOnFirstStartOnly ==
    /\ \A p \in Procs :
          /\ hist[p].stored # {} => firstStart[p] /\ hist[p].found # CATypes
          /\ hist[p].found = CATypes => hist[p].stored = {}
          /\ (pc[p] = "release" /\ result[p] = "ok" /\ firstStart[p]) =>
                /\ \A e \in cfg[p].AllowedTokens : e.role \in KnownRoles
                /\ hist[p].stored = {e.secret : e \in cfg[p].AllowedTokens}
    /\ \A s \in Secrets :
          tokens[s] # Absent =>
             /\ tokens[s].ttl = 600
             /\ tokens[s].role \in KnownRoles

\* C8 witness: a first start with one operator-supplied token is about to
\* return success and the token is stored.
C8_Witness ==
    \E p \in Procs :
        /\ pc[p] = "release"
        /\ result[p] = "ok"
        /\ firstStart[p]
        /\ cfg[p].AllowedTokens = {Tok("node", "s1")}
        /\ tokens["s1"] # Absent

\* C9: a run that upserts a CA type for which the operator configured a
\* keypair (in AuthConfig or in InitConfig) stores that keypair and
\* generates none.
C9_OperatorCAStored ==
    \A p \in Procs : \A t \in CATypes :
        (cfg[p].operator[t] # NoCA /\ t \in hist[p].upserted) =>
            /\ t \notin hist[p].generated
            /\ cfg[p].CA[t] = cfg[p].operator[t]

\* C10: when initKeys found both files, the run generates no key pair,
\* requests no host certificate and writes no file, the files stay as they
\* were found and a returned Identity is the one parsed from them; once
\* both files exist no step changes them.
C10_IdentityCreatedOnce ==
    /\ [](\A p \in Procs :
            hist[p].both =>
               /\ ~hist[p].hostKey /\ ~hist[p].certReq /\ ~hist[p].wrote
               /\ files[p] = hist[p].atStat
               /\ result[p] = "ok" =>
                     identity[p] = ReadIdentity(hist[p].atStat["key"],
                                                hist[p].atStat["cert"]))
    /\ [][ \A p \in Procs :
             (pathExists(files[p]["key"]) /\ pathExists(files[p]["cert"]))
                => files'[p] = files[p] ]_vars

\* C10 witness: a restart found the two files an earlier run wrote and is
\* about to return the identity read from them.
C10_Witness ==
    \E p \in Procs :
        /\ pc[p] = "release"
        /\ hist[p].both
        /\ result[p] = "ok"
        /\ files[p]["key"].k.run < runId[p]
        /\ identity[p].KeyBytes = files[p]["key"]

\* C11: each identity file is either absent or holds its complete content
\* (the key file a private key, the certificate file a certificate) at
\* every point, also after a crash or an error inside writeKeys, and the
\* certificate file exists only when the key file was completely written.
C11_IdentityFilesAtomic ==
    \A p \in Procs :
        /\ files[p]["key"].kind \in {"absent", "key"}
        /\ files[p]["cert"].kind \in {"absent", "cert"}
        /\ files[p]["cert"].kind # "absent" => files[p]["key"].kind = "key"

\* C12: a ReadIdentity call returns an Identity only when the certificate
\* file holds an SSH certificate and the key file a private key, and then
\* the signer of the Identity binds that key to that certificate; when the
\* certificate file holds a plain public key, or a file is missing or does
\* not parse, the call returns an error and no Identity.
C12_ReadIdentityCertSigner ==
    \A p \in Procs :
        pc[p] = "done" =>
            LET kf == files[p]["key"]
                cf == files[p]["cert"]
            IN  /\ (result[p] = "ok") = (identity[p] # NoIdentity)
                /\ result[p] \in {"ok", "error"}
                /\ identity[p] # NoIdentity =>
                      /\ cf.kind = "cert"
                      /\ kf.kind = "key"
                      /\ identity[p].KeySigner = [cert |-> cf, key |-> Priv(kf.k)]
                      /\ cf.Key = Pub(kf.k)
                /\ ( \/ cf.kind \in {"pubkey", "absent", "partial"}
                     \/ kf.kind \in {"absent", "partial"} )
                      => identity[p] = NoIdentity /\ result[p] = "error"

\* C12 witness: the certificate file holds the plain public key of the
\* private key in the key file, and ReadIdentity has returned an error.
C12_Witness ==
    \E p \in Procs :
        /\ pc[p] = "done"
        /\ files[p]["key"].kind = "key"
        /\ files[p]["cert"] = [kind |-> "pubkey", Key |-> Pub(files[p]["key"].k)]
        /\ result[p] = "error"
        /\ identity[p] = NoIdentity

\* the trust cache holds a host-CA one of whose checking keys is k
TrustedChecker(k) ==
    \E id \in CacheIdSet :
        /\ cache[id] # Absent
        /\ cache[id].Type = "host"
        /\ \E j \in 1..Len(cache[id].CheckingKeys) : cache[id].CheckingKeys[j] = k

\* C13: a CheckHostSignature call on a key that is not an SSH certificate
\* is rejected ("expected certificate") whatever the trust cache holds, and
\* the call has not opened the trust cache.
C13_RawHostKeyRejected ==
    (call.op = "check" /\ call.key.kind # "cert")
        => /\ call.result = "expected certificate"
           /\ call.open = "not called"
           /\ call.read = "not called"

\* C13 witness: the server presented, as a plain public key, the checking
\* key of a host-CA that is in the trust cache, and was rejected.
C13_Witness ==
    /\ call.op = "check"
    /\ call.key.kind = "pubkey"
    /\ TrustedChecker(call.key.Key)
    /\ call.result = "expected certificate"

C15_UnknownAuthorityRejected ==
    ( /\ call.op = "check"
      /\ call.key.kind = "cert"
      /\ ~TrustedChecker(call.key.SignatureKey)
      /\ call.read # "failed" )
        => call.result = "no matching authority found"

\* C16: the trust cache holds exactly the CAs passed to the
\* AddHostSignersToCache calls so far, a CheckHostSignature call leaves it
\* as it is, and a certificate signed by the host-CA of B is rejected by
\* every check made before that CA was passed and accepted by every check
\* made after (whose read of the CA list did not fail).
C16_CacheHoldsExactlyAdded ==
    /\ [](cache = passed)
    /\ [][call'.op = "check" => cache' = cache]_vars
    /\ [](( /\ call.op = "check"
            /\ call.key = HostCertSignedBy(SignerB.CheckingKeys[1]) )
            => /\ passed[CAId(SignerB)] = Absent => call.result # "nil"
               /\ (passed[CAId(SignerB)] # Absent /\ call.read # "failed")
                     => call.result = "nil")

\* the entries of what a GetLocalAgent call read that were complete keys
\* before their deadline when they were read
ValidSeen == SelectSeq(reader.seen, LAMBDA e : e.content.kind = "tkey" /\ ~e.past)

C18_AgentHoldsEveryValidKey ==
    /\ []((reader.pc = "done" /\ reader.result = "ok") =>
             /\ reader.agent =
                   [i \in 1..Len(ValidSeen) |->
                      [PrivateKey |-> ValidSeen[i].content.priv,
                       Certificate |-> ValidSeen[i].content.cert,
                       Comment |-> "", LifetimeSecs |-> 0,
                       ConfirmBeforeUse |-> FALSE]]
             /\ [j \in 1..Len(reader.seen) |-> reader.seen[j].file] = reader.listed)
    /\ [][ (reader.pc \in {"idle", "done"} /\ reader'.pc = "load")
             => reader'.listed =
                  SelectSeq(KeyFileNames, LAMBDA f : keyDir[f].kind # "absent") ]_vars

\* C18 witness: the agent holds the keys of the first and the third file,
\* in that order; the second file held a key past its deadline.
C18_Witness ==
    /\ reader.pc = "done"
    /\ reader.result = "ok"
    /\ Len(reader.seen) = 3
    /\ reader.seen[2].past
    /\ Len(reader.agent) = 2
    /\ reader.agent[1].Certificate = reader.seen[1].content.cert
    /\ reader.agent[2].Certificate = reader.seen[3].content.cert
    /\ reader.agent[1] # reader.agent[2]

\* C19: whatever loadKey reads from a key file while saveKey writes it is
\* the complete earlier content or the complete new content of the file,
\* never an empty or partly written file.
C19_ReaderSeesCompleteFile ==
    \A j \in 1..Len(reader.seen) : reader.seen[j].content.kind = "tkey"

\* a CompareAndSwap call returns in a step that stores new when the key
\* holds old, and otherwise leaves the key as it is and fails with
\* compare-failed
SwapStepIsAtomic ==
    \A c \in CasCallers :
        (swaps[c].pc = "called" /\ swaps'[c].pc = "done") =>
            IF kv.kind = "value" /\ kv.val = swaps[c].old
              THEN /\ kv'.val = swaps[c].new
                   /\ swaps'[c].result = "ok"
              ELSE /\ kv' = kv
                   /\ swaps'[c].result = "compare-failed"

\* C20 as stated: every CompareAndSwap is an atomic compare-then-store, and
\* of the concurrent calls with the same old value at most one succeeds.
C20_AtMostOneSwapSucceeds ==
    /\ [][SwapStepIsAtomic]_vars
    /\ [](\A c1 \in CasCallers : \A c2 \in CasCallers \ {c1} :
             (swaps[c1].old = swaps[c2].old /\ swaps[c1].result = "ok")
                => swaps[c2].result # "ok")

\* C20 amended: every CompareAndSwap is an atomic compare-then-store, and of
\* two concurrent calls with the same old value that both succeed the later
\* one compared a value stored no earlier than the earlier call's store;
\* when it compared the very value the earlier call stored, that call's new
\* value equals its old value.
C20_SwapConsumesValue ==
    /\ [][SwapStepIsAtomic]_vars
    /\ [](\A c1 \in CasCallers : \A c2 \in CasCallers \ {c1} :
             ( /\ swaps[c1].old = swaps[c2].old
               /\ swaps[c1].result = "ok" /\ swaps[c2].result = "ok"
               /\ swaps[c1].at < swaps[c2].at )
                => /\ swaps[c2].ver >= swaps[c1].at
                   /\ swaps[c2].ver = swaps[c1].at => swaps[c1].new = swaps[c1].old)

\* C20 witness: of two calls with the same old value and another new value,
\* one has succeeded and the other has failed with compare-failed; the key
\* holds what the first stored.
C20_Witness ==
    \E c1 \in CasCallers : \E c2 \in CasCallers \ {c1} :
        /\ swaps[c1].old = swaps[c2].old
        /\ swaps[c1].new # swaps[c1].old
        /\ swaps[c1].result = "ok"
        /\ swaps[c2].result = "compare-failed"
        /\ kv.val = swaps[c1].new

----------------------------------------------------------------------------
\* C26: CheckHostSignature fails closed: a call returns success only when
\* it opened the trust cache, read the CA list and found a checking key of
\* a cached host-CA equal to the certificate's SignatureKey; a call that
\* could not open the database or could not read the list returns an error.
C26_CheckFailsClosed ==
    call.op = "check"
        => /\ call.result = "nil"
                => /\ call.open = "ok"
                   /\ call.read = "ok"
                   /\ call.key.kind = "cert"
                   /\ TrustedChecker(call.key.SignatureKey)
           /\ (call.open = "failed" \/ call.read = "failed")
                => call.result # "nil"

\* C27: an AddHostSignersToCache call returns success only if the database
\* opened and every CA of its list was upserted, so that after a successful
\* call the cache holds an entry for every CA of the list.
C27_AddReportsFailure ==
    (call.op = "add" /\ call.result = "nil")
        => /\ call.open = "ok"
           /\ call.upserted = Len(call.signers)
           /\ \A i \in 1..Len(call.signers) :
                  cache[CAId(call.signers[i])] # Absent

----------------------------------------------------------------------------
\* the name of a key file: KeyFilePrefix + name + KeyFileSuffix
IsKeyFileName(f) == HasPrefix(f, KeyFilePrefix) /\ HasSuffix(f, KeyFileSuffix)

\* C30: GetLocalAgent (loadAllKeys) deletes a directory entry only if it is
\* a file with the name of a key file that holds a complete key whose
\* deadline has passed; directories, files with other names, key files
\* that do not parse and key files whose deadline is in the future stay as
\* they are; and once the directory was listed the call never fails and
\* returns every key it read complete and before its deadline.
C30_OnlyExpiredKeyFilesDeleted ==
    /\ [][\A f \in DirSet :
            /\ (keyDir[f] # Absent /\ keyDir'[f] = Absent)
                  => /\ IsKeyFileName(f)
                     /\ keyDir[f].kind = "tkey"
                     /\ keyDir[f].deadline \in pastDeadline
            /\ (~IsKeyFileName(f) \/ IsDir(keyDir[f])) => keyDir'[f] = keyDir[f]]_vars
    /\ [](reader.result = "error" => reader.seen = <<>>)
    /\ [](reader.pc = "done" /\ reader.result = "ok"
            => reader.keys = [j \in 1..Len(ValidSeen) |-> loadKey(ValidSeen[j].content).key])

----------------------------------------------------------------------------
\* C28: whenever the key file and the certificate file of a DataDir both
\* exist, they hold a matching pair that ReadIdentity parses into an
\* Identity, whatever runs of initKeys, errors and crashes came before; so a
\* run whose initKeys found both files returns success.
C28_ExistingFilesMatch ==
    \A p \in Procs :
        /\ (pathExists(files[p]["key"]) /\ pathExists(files[p]["cert"]))
              => /\ ReadIdentity(files[p]["key"], files[p]["cert"]) # NoIdentity
                 /\ files[p]["cert"].Key = Pub(files[p]["key"].k)
        /\ (hist[p].both /\ pc[p] = "release") => result[p] = "ok"

----------------------------------------------------------------------------
\* C29: when an Init run configured with provisioning tokens is about to
\* return success, every one of its tokens is stored in the backend, also
\* when an earlier run on that backend failed or crashed after it had
\* persisted a CA and before it had stored the tokens.  The model never
\* drops a stored token; runs that overlap another run still in progress
\* are left aside.
C29_TokensInstalledAfterRetry ==
    \A p \in Procs :
        ( /\ pc[p] = "release"
          /\ result[p] = "ok"
          /\ cfg[p].AllowedTokens # {}
          /\ \A q \in Procs \ {p} : pc[q] \notin Running )
            => \A e \in cfg[p].AllowedTokens : tokens[e.secret] # Absent

----------------------------------------------------------------------------
\* the record e, as it was at time now, is one a reader must see: it was
\* stored with no ttl, or less than its ttl has passed since it was stored
Readable(e, now) == e # Absent /\ (e.ttl = Forever \/ now < e.at + e.ttl)

\* C21: a Get returns the value of a record exactly when the record was
\* stored with ttl = 0 or less than its ttl had passed when the Get was
\* issued, and a List returns exactly the keys of such records, whether the
\* backend has removed the elapsed record or not; a record stored with
\* ttl = 0 is never removed.  So a token stored with the 600 seconds of
\* Init is not found from 600 seconds on and a CA stored with
\* backend.Forever is found at any time.
C21_ExpiredKeysAbsent ==
    /\ got.op = "get"
          => (got.result # "not found" <=> Readable(got.found, got.at))
    /\ got.op = "list"
          => got.keys = {k \in StoreKeys : Readable(got.found[k], got.at)}
    /\ \A k \in StoreKeys :
          (store[k] # Absent /\ store[k].reaped)
              => store[k].ttl # Forever /\ clock >= store[k].at + store[k].ttl

\* C21 witness: the token was stored with the ttl of Init at time 0 and
\* the backend has not removed it; a Get issued 800 seconds later did not
\* find it.
C21_Witness ==
    /\ got.op = "get"
    /\ got.key = "tokens/s1"
    /\ got.found # Absent
    /\ got.found.ttl = TokenTTL
    /\ got.found.at = 0
    /\ ~got.found.reaped
    /\ got.at = 2 * TickSeconds
    /\ got.result = "not found"

----------------------------------------------------------------------------
\* configure has returned a Config and no error
Configured == conf.pc = "returned" /\ conf.err = "nil"

\* the value the configuration file sets, "" or nil when there is no file
FileValue(field, unset) == IF conf.fc = NoFile THEN unset ELSE conf.fc[field]

\* C22: when configure returns a Config, its hostname, auth servers, token
\* (of the SSH, Proxy and Auth sections) and advertise IP each hold the
\* value of the flag when the flag is given, else the value of the
\* configuration file when the file sets it, else the default.
C22_FlagsOverFileOverDefaults ==
    Configured =>
        /\ conf.cfg.Hostname =
              IF conf.clf.NodeName # "" THEN conf.clf.NodeName
              ELSE IF FileValue("NodeName", "") # "" THEN conf.fc.NodeName
              ELSE DefaultHostname
        /\ conf.cfg.AuthServers =
              IF conf.clf.AuthServerAddr # EmptyAddr
                THEN <<NetAddr(conf.clf.AuthServerAddr.host,
                               IF conf.clf.AuthServerAddr.port = 0
                                 THEN AuthListenPort
                                 ELSE conf.clf.AuthServerAddr.port)>>
              ELSE IF FileValue("AuthServers", <<>>) # <<>>
                THEN [i \in 1..Len(conf.fc.AuthServers) |->
                         NetAddr(conf.fc.AuthServers[i].host,
                                 conf.fc.AuthServers[i].port)]
              ELSE <<NetAddr("0.0.0.0", AuthListenPort)>>
        /\ \A section \in {"SSH", "Proxy", "Auth"} :
              conf.cfg[section].Token =
                  IF conf.clf.AuthToken # "" THEN conf.clf.AuthToken
                  ELSE IF FileValue("AuthToken", "") # "" THEN conf.fc.AuthToken
                  ELSE ""
        /\ conf.cfg.AdvertiseIP =
              IF conf.clf.AdvertiseIP # NoIP THEN conf.clf.AdvertiseIP
              ELSE IF FileValue("AdvertiseIP", NoIP) # NoIP THEN conf.fc.AdvertiseIP
              ELSE NoIP

\* C22 witness: --name and the file both name the node, only the file
\* sets the token and the advertise IP, nothing sets the auth servers; the
\* Config holds the name of the flag, the token and the IP of the file and
\* the default auth server.
C22_Witness ==
    /\ Configured
    /\ conf.clf.NodeName = "flag-node"
    /\ conf.fc # NoFile
    /\ conf.fc.NodeName = "file-node"
    /\ conf.clf.AuthToken = ""
    /\ conf.clf.AdvertiseIP = NoIP
    /\ conf.clf.AuthServerAddr = EmptyAddr
    /\ conf.fc.AuthServers = <<>>
    /\ conf.cfg.Hostname = "flag-node"
    /\ conf.cfg.SSH.Token = "file-token"
    /\ conf.cfg.AdvertiseIP = "10.2.2.2"
    /\ conf.cfg.AuthServers = <<NetAddr("0.0.0.0", AuthListenPort)>>

\* every element of the --roles value is one of the three roles
ValidRoles(roles) ==
    \A i \in 1..Len(roles) : roles[i] \in {"auth", "node", "proxy"}
RoleListed(roles, role) == \E i \in 1..Len(roles) : roles[i] = role

\* C23: when --roles is given with valid elements and configure returns a
\* Config, Auth, SSH and Proxy are each enabled exactly when their role is
\* an element of the list and ReverseTunnel.Enabled equals Proxy.Enabled;
\* when an element is not a role, configure returns an error.
C23_RolesSelectServices ==
    (conf.pc = "returned" /\ conf.clf.Roles # <<>>) =>
        /\ (ValidRoles(conf.clf.Roles) /\ conf.err = "nil") =>
              /\ conf.cfg.Auth.Enabled <=> RoleListed(conf.clf.Roles, "auth")
              /\ conf.cfg.SSH.Enabled <=> RoleListed(conf.clf.Roles, "node")
              /\ conf.cfg.Proxy.Enabled <=> RoleListed(conf.clf.Roles, "proxy")
              /\ conf.cfg.ReverseTunnel.Enabled = conf.cfg.Proxy.Enabled
        /\ ~ValidRoles(conf.clf.Roles) => conf.err # "nil"

\* C23 as amended: as C23, except that Auth is enabled exactly when auth is
\* an element of the list and --auth-server is not given.
C23_RolesSelectServicesUnlessAuthServer ==
    (conf.pc = "returned" /\ conf.clf.Roles # <<>>) =>
        /\ (ValidRoles(conf.clf.Roles) /\ conf.err = "nil") =>
              /\ conf.cfg.Auth.Enabled <=>
                    /\ RoleListed(conf.clf.Roles, "auth")
                    /\ conf.clf.AuthServerAddr = EmptyAddr
              /\ conf.cfg.SSH.Enabled <=> RoleListed(conf.clf.Roles, "node")
              /\ conf.cfg.Proxy.Enabled <=> RoleListed(conf.clf.Roles, "proxy")
              /\ conf.cfg.ReverseTunnel.Enabled = conf.cfg.Proxy.Enabled
        /\ ~ValidRoles(conf.clf.Roles) => conf.err # "nil"

\* C23 witness: the file disables Auth, --roles proxy,auth is given with
\* --auth-server; configure returns a Config with Proxy and the reverse
\* tunnel enabled, SSH disabled although enabled by default, and Auth
\* disabled.
C23_Witness ==
    /\ Configured
    /\ conf.clf.Roles = <<"proxy", "auth">>
    /\ conf.clf.AuthServerAddr # EmptyAddr
    /\ conf.fc # NoFile
    /\ conf.fc.Disabled = {RoleAuthService}
    /\ conf.cfg.Proxy.Enabled
    /\ conf.cfg.ReverseTunnel.Enabled
    /\ ~conf.cfg.SSH.Enabled
    /\ ~conf.cfg.Auth.Enabled

\* C24: every ApplyToken call made by configure with a non-empty token
\* left SSH.Token, Proxy.Token and Auth.Token equal to it, changed nothing
\* else and returned true; every call with an empty token left the Config
\* as it was and returned false; so the token of the file is the token of
\* the Config when --token is not given.
C24_ApplyTokenKeepsOnEmpty ==
    conf.pc = "returned" =>
        /\ \A i \in 1..Len(conf.tokenCalls) :
              LET c == conf.tokenCalls[i]
              IN  IF c.token # ""
                    THEN /\ c.ret
                         /\ c.after = [c.before EXCEPT !.SSH.Token = c.token,
                                                       !.Proxy.Token = c.token,
                                                       !.Auth.Token = c.token]
                    ELSE ~c.ret /\ c.after = c.before
        /\ ( /\ conf.err = "nil"
             /\ conf.clf.AuthToken = ""
             /\ FileValue("AuthToken", "") # "" )
              => \A section \in {"SSH", "Proxy", "Auth"} :
                    conf.cfg[section].Token = conf.fc.AuthToken

\* C24 witness: the file sets the token, --token is absent; ApplyToken was
\* called with the token of the file and then with the empty string, and
\* the Config returned carries the token of the file.
C24_Witness ==
    /\ Configured
    /\ Len(conf.tokenCalls) = 2
    /\ conf.tokenCalls[1].token = "file-token"
    /\ conf.tokenCalls[1].ret
    /\ conf.tokenCalls[2].token = ""
    /\ ~conf.tokenCalls[2].ret
    /\ conf.tokenCalls[2].after.Auth.Token = "file-token"
    /\ conf.cfg.Proxy.Token = "file-token"

\* C25: when the configuration file sets limits and applyFileConfig
\* returned nil, the Limiter of the SSH, Auth and Proxy sections of the
\* Config each carry the MaxConnections and the MaxUsers of the file (when
\* positive) and the rates of the file appended to their Rates.
C25_FileLimitsApplied ==
    ( /\ conf.pc = "returned"
      /\ conf.fc # NoFile
      /\ conf.fileErr = "nil"
      /\ conf.fc.Limits # NoLimits )
        => \A section \in {"SSH", "Auth", "Proxy"} :
              conf.afterFile[section].Limiter =
                  ApplyLimits(DefaultLimiter, conf.fc.Limits)

====
